---- MODULE Spec2Model ----
(***************************************************************************)
(* The replicated meta-service state machine (sm_v003): the leveled        *)
(* key-value store with its expiration index, the applier of raft log      *)
(* entries, snapshot views and snapshot installation.                      *)
(*                                                                         *)
(* Option<T> is written as a sequence: None is <<>>, Some(x) is <<x>>.     *)
(* A string key is the sequence of its bytes; a BTreeMap is a function     *)
(* whose DOMAIN is the set of keys present.                                *)
(***************************************************************************)
EXTENDS Integers, Sequences, FiniteSets, TLC

VARIABLES
    sm,        \* SMV003: [frozen, writable, expire_cursor]
    view,      \* Option<SnapshotViewV003>: [compacted, original]
    importing, \* Option<LevelData>: install_snapshot between importer.commit() and the write lock
    arcs,      \* number of levels frozen so far: the identity of the next frozen Arc
    peer,      \* Option<SMV003>: a second replica, built from a snapshot of `sm`
    last,      \* the last operation run: [op, entry, reply, events, panic]
    subscriber, \* Option<the calls of kv_changed so far>: None until set_subscriber
    importer,  \* Option<Importer>: [level_data, kv, expire, greatest_seq], None until new_importer
    disk,      \* what is persisted: [header, trees, snapshot] and what the run started from
    ondisk,    \* Option<OnDisk>: the process between open() and the end of upgrade(), None when down
    raft_store \* RaftStore: [log, last_purged, tasks, reading, log_state, callback, returned, op]

vars == <<sm, view, importing, arcs, peer, last, subscriber, importer, disk, ondisk, raft_store>>

(***************************************************************************)
(* Bounds of the model.                                                    *)
(***************************************************************************)
\* Greatest raft log index that is applied.
MaxIndex == 3
\* Greatest number of times the writable level is frozen.
MaxFreeze == 2

None == <<>>
Some(x) == <<x>>
IsSome(o) == Len(o) = 1
IsNone(o) == Len(o) = 0
Unwrap(o) == o[1]

Max(a, b) == IF a >= b THEN a ELSE b

(***************************************************************************)
(* Orderings: String (lexicographic on bytes), ExpireKey (time_ms, seq),   *)
(* LogId (leader term, index) and Option<LogId> (None is the least).       *)
(***************************************************************************)
RECURSIVE BytesLT(_, _)
BytesLT(a, b) ==
    IF Len(b) = 0 THEN FALSE
    ELSE IF Len(a) = 0 THEN TRUE
    ELSE IF a[1] # b[1] THEN a[1] < b[1]
    ELSE BytesLT(Tail(a), Tail(b))

BytesLE(a, b) == a = b \/ BytesLT(a, b)

\* str::starts_with
StartsWith(k, p) == Len(p) <= Len(k) /\ SubSeq(k, 1, Len(p)) = p

\* ExpireKey { time_ms, seq }: derived Ord, time_ms first.
ExpireKey(time_ms, seq) == <<time_ms, seq>>
ExpireKeyLT(a, b) == a[1] < b[1] \/ (a[1] = b[1] /\ a[2] < b[2])
ExpireKeyLE(a, b) == a = b \/ ExpireKeyLT(a, b)

\* ExpireKey::is_expired: a key whose time is not after the log time has expired.
IsExpired(expire_key, time_ms) == expire_key[1] <= time_ms

LogId(term, index) == [term |-> term, index |-> index]
LogIdLT(a, b) == a.term < b.term \/ (a.term = b.term /\ a.index < b.index)
OptLogIdLE(a, b) ==
    IF IsNone(a) THEN TRUE
    ELSE IF IsNone(b) THEN FALSE
    ELSE Unwrap(a) = Unwrap(b) \/ LogIdLT(Unwrap(a), Unwrap(b))
OptLogIdLT(a, b) == a # b /\ OptLogIdLE(a, b)

\* The keys of a BTreeMap<String, _> in ascending order.
RECURSIVE SortedKeys(_)
SortedKeys(S) ==
    IF S = {} THEN <<>>
    ELSE LET m == CHOOSE x \in S : \A y \in S \ {x} : BytesLT(x, y)
         IN <<m>> \o SortedKeys(S \ {m})

\* The keys of a BTreeMap<ExpireKey, _> in ascending order.
RECURSIVE SortedExpireKeys(_)
SortedExpireKeys(S) ==
    IF S = {} THEN <<>>
    ELSE LET m == CHOOSE x \in S : \A y \in S \ {x} : ExpireKeyLT(x, y)
         IN <<m>> \o SortedExpireKeys(S \ {m})

(***************************************************************************)
(* Marked<T>: Normal{internal_seq, value, meta} or TombStone{internal_seq}.*)
(* KVMeta{expire_at}: expire_at is in seconds.                             *)
(***************************************************************************)
KVMeta(expire_at) == [expire_at |-> expire_at]

Normal(seq, value, meta) ==
    [tomb |-> FALSE, internal_seq |-> seq, value |-> value, meta |-> meta]
TombStone(seq) ==
    [tomb |-> TRUE, internal_seq |-> seq, value |-> <<>>, meta |-> None]

\* Marked::empty(): what a level answers for a key it does not hold.
MarkedEmpty == TombStone(0)
IsTombStone(m) == m.tomb
IsNotFound(m) == m = MarkedEmpty

\* KVMeta::get_expire_at_ms: seconds to milliseconds.
MetaExpireAtMs(meta) ==
    IF IsNone(meta) THEN None
    ELSE IF IsNone(Unwrap(meta).expire_at) THEN None
    ELSE Some(Unwrap(Unwrap(meta).expire_at) * 1000)

\* Marked::expire_at_ms
MarkedExpireAtMs(m) == IF m.tomb THEN None ELSE MetaExpireAtMs(m.meta)

\* SeqValue::seq of a Marked: a tombstone reads as seq 0.
MarkedSeq(m) == IF m.tomb THEN 0 ELSE m.internal_seq

SeqV(seq, meta, data) == [seq |-> seq, meta |-> meta, data |-> data]

\* From<Marked> for Option<SeqV>
ToSeqV(m) == IF m.tomb THEN None ELSE Some(SeqV(m.internal_seq, m.meta, m.value))

\* SeqValue::seq of an Option<SeqV>
OptSeq(o) == IF IsNone(o) THEN 0 ELSE Unwrap(o).seq

(***************************************************************************)
(* LevelData: one level of kv, expiration index and sys-data.              *)
(***************************************************************************)
EmptyMap == [x \in {} |-> TRUE]

Membership0 == [log_id |-> None, membership |-> 0]

SysData0 ==
    [last_applied |-> None, last_membership |-> Membership0,
     nodes |-> EmptyMap, seq |-> 0]

LevelData0 == [kv |-> EmptyMap, expire |-> EmptyMap, sys |-> SysData0]

\* LevelData::new_level: a fresh level that inherits the sys-data.
NewLevel(d) == [kv |-> EmptyMap, expire |-> EmptyMap, sys |-> d.sys]

MapGet(map, key) == IF key \in DOMAIN map THEN map[key] ELSE MarkedEmpty
MapPut(map, key, val) == (key :> val) @@ map

\* A variant of LevelSetKV in which a tombstone takes a seq of the counter
\* and is stamped with the seq before it.
LevelSetKV_TombstoneTakesSeq(d, key, value) ==
    IF IsSome(value)
    THEN [d |-> [d EXCEPT !.sys.seq = d.sys.seq + 1,
                          !.kv = MapPut(d.kv, key, Normal(d.sys.seq + 1, Unwrap(value)[1],
                                                          Unwrap(value)[2]))],
          marked |-> Normal(d.sys.seq + 1, Unwrap(value)[1], Unwrap(value)[2])]
    ELSE [d |-> [d EXCEPT !.sys.seq = d.sys.seq + 1,
                          !.kv = MapPut(d.kv, key, TombStone(d.sys.seq))],
          marked |-> TombStone(d.sys.seq)]

\* MapApi<String>::set on one level: a Normal record takes the next seq,
\* a tombstone is stamped with the current seq and does not take a seq.
LevelSetKV(d, key, value) ==
    IF IsSome(value)
    THEN LET seq == d.sys.seq + 1
             marked == Normal(seq, Unwrap(value)[1], Unwrap(value)[2])
         IN [d |-> [d EXCEPT !.sys.seq = seq, !.kv = MapPut(d.kv, key, marked)],
             marked |-> marked]
    ELSE LET marked == TombStone(d.sys.seq)
         IN [d |-> [d EXCEPT !.kv = MapPut(d.kv, key, marked)], marked |-> marked]

\* MapApi<ExpireKey>::set on one level: the record is stamped with the current seq.
LevelSetExpire(d, key, value) ==
    LET marked == IF IsSome(value)
                  THEN Normal(d.sys.seq, Unwrap(value)[1], Unwrap(value)[2])
                  ELSE TombStone(d.sys.seq)
    IN [d |-> [d EXCEPT !.expire = MapPut(d.expire, key, marked)], marked |-> marked]

(***************************************************************************)
(* LeveledMap: frozen levels (oldest first), each an Arc with an identity, *)
(* under one writable level.                                               *)
(***************************************************************************)
Arc(id, d) == [id |-> id, d |-> d]

\* The levels of a stack of Arcs, oldest first.
ArcLevels(frozen) == [i \in 1..Len(frozen) |-> frozen[i].d]

\* All levels of the state machine, oldest first, the writable last.
AllLevels(s) == Append(ArcLevels(s.frozen), s.writable)

\* get: the newest level that holds the key decides, a tombstone included.
RECURSIVE LevelsGet(_, _, _)
LevelsGet(levels, which, key) ==
    IF Len(levels) = 0 THEN MarkedEmpty
    ELSE LET top == levels[Len(levels)]
             got == MapGet(IF which = "kv" THEN top.kv ELSE top.expire, key)
         IN IF ~IsNotFound(got) THEN got
            ELSE LevelsGet(SubSeq(levels, 1, Len(levels) - 1), which, key)

LevelsKeys(levels, which) ==
    UNION {DOMAIN (IF which = "kv" THEN levels[i].kv ELSE levels[i].expire)
           : i \in 1..Len(levels)}

\* range(..): the merged view in key order, tombstones surfaced.
RangeKV(levels) ==
    LET keys == SortedKeys(LevelsKeys(levels, "kv"))
    IN [i \in 1..Len(keys) |-> <<keys[i], LevelsGet(levels, "kv", keys[i])>>]

RangeExpire(levels) ==
    LET keys == SortedExpireKeys(LevelsKeys(levels, "expire"))
    IN [i \in 1..Len(keys) |-> <<keys[i], LevelsGet(levels, "expire", keys[i])>>]

\* MapApiRO::get on the LeveledMap of the state machine.
LMGetKV(s, key) == LevelsGet(AllLevels(s), "kv", key)
LMGetExpire(s, key) == LevelsGet(AllLevels(s), "expire", key)

\* MapApi::set on the LeveledMap: deleting what is not there writes nothing.
LMSetKV(s, key, value) ==
    LET prev == LMGetKV(s, key)
    IN IF IsNotFound(prev) /\ IsNone(value)
       THEN [sm |-> s, prev |-> prev, result |-> TombStone(0)]
       ELSE LET r == LevelSetKV(s.writable, key, value)
            IN [sm |-> [s EXCEPT !.writable = r.d], prev |-> prev, result |-> r.marked]

LMSetExpire(s, key, value) ==
    LET prev == LMGetExpire(s, key)
    IN IF IsNotFound(prev) /\ IsNone(value)
       THEN [sm |-> s, prev |-> prev, result |-> TombStone(0)]
       ELSE LET r == LevelSetExpire(s.writable, key, value)
            IN [sm |-> [s EXCEPT !.writable = r.d], prev |-> prev, result |-> r.marked]

\* MapApi::update_meta: rewrite a live record with new meta; nothing for a tombstone.
LMUpdateMeta(s, key, meta) ==
    LET got == LMGetKV(s, key)
    IN IF IsTombStone(got)
       THEN [sm |-> s, prev |-> got, result |-> got]
       ELSE LMSetKV(s, key, Some(<<got.value, meta>>))

(***************************************************************************)
(* SMV003: the state machine.                                              *)
(***************************************************************************)
SMV003(frozen, writable, expire_cursor) ==
    [frozen |-> frozen, writable |-> writable, expire_cursor |-> expire_cursor]

\* SMV003::default()
SM0 == SMV003(<<>>, LevelData0, ExpireKey(0, 0))

curr_seq(s) == s.writable.sys.seq
last_applied_ref(s) == s.writable.sys.last_applied
last_membership_ref(s) == s.writable.sys.last_membership
nodes_ref(s) == s.writable.sys.nodes

\* A variant of get_kv that skips tombstones: the newest Normal record of the
\* key in any level is returned.
RECURSIVE NewestNormal(_, _)
NewestNormal(levels, key) ==
    IF Len(levels) = 0 THEN MarkedEmpty
    ELSE IF ~MapGet(levels[Len(levels)].kv, key).tomb
    THEN MapGet(levels[Len(levels)].kv, key)
    ELSE NewestNormal(SubSeq(levels, 1, Len(levels) - 1), key)

get_kv_SkipsTombstones(s, key) == ToSeqV(NewestNormal(AllLevels(s), key))

\* SMV003::get_kv: the merged value of a key, a tombstone read as None.
get_kv(s, key) == ToSeqV(LMGetKV(s, key))

\* MatchSeq::match_seq
match_seq(m, seq) ==
    CASE m.t = "Any" -> TRUE
      [] m.t = "Exact" -> seq = m.n
      [] m.t = "GE" -> seq >= m.n

\* UpsertKV::get_expire_at_ms
get_expire_at_ms(upsert_kv) == MetaExpireAtMs(upsert_kv.value_meta)

\* A variant of DeleteIfExpired that keeps the record whatever its expiry.
DeleteIfExpired_Never(cursor, upsert_kv, r) == r

\* The tail of upsert_kv_primary_index: a record written with an expiry
\* before the expiration cursor is deleted at once, after it was written.
DeleteIfExpired(cursor, upsert_kv, r) ==
    IF IsSome(get_expire_at_ms(upsert_kv))
         /\ Unwrap(get_expire_at_ms(upsert_kv)) < cursor[1]
    THEN [LMSetKV(r.sm, upsert_kv.key, None) EXCEPT !.prev = r.prev]
    ELSE r

\* A variant of DoOperation in which Delete writes a value before the
\* tombstone, as the old state machine did, and so takes a seq.
DoOperation_DeleteTakesSeq(s, upsert_kv) ==
    CASE upsert_kv.value.t = "Update" ->
           LMSetKV(s, upsert_kv.key, Some(<<upsert_kv.value.v, upsert_kv.value_meta>>))
      [] upsert_kv.value.t = "Delete" ->
           [LMSetKV(LMSetKV(s, upsert_kv.key, Some(<<(<<>>), None>>)).sm, upsert_kv.key, None)
               EXCEPT !.prev = LMGetKV(s, upsert_kv.key)]
      [] upsert_kv.value.t = "AsIs" ->
           LMUpdateMeta(s, upsert_kv.key, upsert_kv.value_meta)

\* The operation of an upsert on the leveled map.
DoOperation(s, upsert_kv) ==
    CASE upsert_kv.value.t = "Update" ->
           LMSetKV(s, upsert_kv.key, Some(<<upsert_kv.value.v, upsert_kv.value_meta>>))
      [] upsert_kv.value.t = "Delete" ->
           LMSetKV(s, upsert_kv.key, None)
      [] upsert_kv.value.t = "AsIs" ->
           LMUpdateMeta(s, upsert_kv.key, upsert_kv.value_meta)

\* A variant of upsert_kv_primary_index that does not test MatchSeq.
upsert_kv_primary_index_Unmatched(s, upsert_kv) ==
    DeleteIfExpired(s.expire_cursor, upsert_kv, DoOperation(s, upsert_kv))

\* A variant of upsert_kv_primary_index that deletes a record that has
\* expired already without writing it first.
upsert_kv_primary_index_DeleteOnly(s, upsert_kv) ==
    IF ~match_seq(upsert_kv.seq, MarkedSeq(LMGetKV(s, upsert_kv.key)))
    THEN [sm |-> s, prev |-> LMGetKV(s, upsert_kv.key),
          result |-> LMGetKV(s, upsert_kv.key)]
    ELSE IF IsSome(get_expire_at_ms(upsert_kv))
              /\ Unwrap(get_expire_at_ms(upsert_kv)) < s.expire_cursor[1]
    THEN LMSetKV(s, upsert_kv.key, None)
    ELSE DoOperation(s, upsert_kv)

\* SMV003::upsert_kv_primary_index: an upsert whose MatchSeq does not match
\* the seq of the key returns (prev, prev) and writes nothing.
upsert_kv_primary_index(s, upsert_kv) ==
    IF ~match_seq(upsert_kv.seq, MarkedSeq(LMGetKV(s, upsert_kv.key)))
    THEN [sm |-> s, prev |-> LMGetKV(s, upsert_kv.key),
          result |-> LMGetKV(s, upsert_kv.key)]
    ELSE DeleteIfExpired(s.expire_cursor, upsert_kv, DoOperation(s, upsert_kv))

\* The second half of update_expire_index: the index entry of the new record.
AddExpire(s, key, added) ==
    IF IsSome(MarkedExpireAtMs(added))
    THEN LMSetExpire(s, ExpireKey(Unwrap(MarkedExpireAtMs(added)), added.internal_seq),
                     Some(<<key, None>>)).sm
    ELSE s

\* The first half of update_expire_index: the index entry of the old record.
RemoveExpire(s, removed) ==
    IF IsSome(MarkedExpireAtMs(removed))
    THEN LMSetExpire(s, ExpireKey(Unwrap(MarkedExpireAtMs(removed)), removed.internal_seq),
                     None).sm
    ELSE s

\* A variant of update_expire_index that adds the index entry of the new
\* record and forgets to remove the one of the old record.
update_expire_index_KeepsOld(s, key, removed, added) ==
    IF removed = added THEN s ELSE AddExpire(s, key, added)

\* SMV003::update_expire_index
update_expire_index(s, key, removed, added) ==
    IF removed = added THEN s
    ELSE AddExpire(RemoveExpire(s, removed), key, added)

\* SMV003::upsert_kv, given the outcome p of upsert_kv_primary_index.
WithExpireIndex(key, p) ==
    [sm |-> update_expire_index(p.sm, key, p.prev, p.result),
     prev |-> ToSeqV(p.prev), result |-> ToSeqV(p.result)]

\* SMV003::upsert_kv: the primary index, then the expiration index.
sm_upsert_kv(s, upsert_kv) ==
    WithExpireIndex(upsert_kv.key, upsert_kv_primary_index(s, upsert_kv))

\* The entries of a sorted range from the first one at or after a bound.
RECURSIVE TakeWhilePrefix(_, _)
TakeWhilePrefix(rng, prefix) ==
    IF Len(rng) = 0 THEN <<>>
    ELSE IF ~StartsWith(rng[1][1], prefix) THEN <<>>
    ELSE LET rest == TakeWhilePrefix(Tail(rng), prefix)
             seqv == ToSeqV(rng[1][2])
         IN IF IsSome(seqv) THEN <<(<<rng[1][1], Unwrap(seqv)>>)>> \o rest ELSE rest

\* A variant of TakeWhilePrefix that stops at the first tombstone instead of
\* skipping it.
RECURSIVE TakeUntilTombstone(_, _)
TakeUntilTombstone(rng, prefix) ==
    IF Len(rng) = 0 THEN <<>>
    ELSE IF ~StartsWith(rng[1][1], prefix) \/ IsTombStone(rng[1][2]) THEN <<>>
    ELSE <<(<<rng[1][1], Unwrap(ToSeqV(rng[1][2]))>>)>>
           \o TakeUntilTombstone(Tail(rng), prefix)

prefix_list_kv_StopsAtTombstone(s, prefix) ==
    TakeUntilTombstone(SelectSeq(RangeKV(AllLevels(s)), LAMBDA e : BytesLE(prefix, e[1])),
                       prefix)

\* SMV003::prefix_list_kv: range(prefix..), stopping at the first key without the prefix.
prefix_list_kv(s, prefix) ==
    LET rng == RangeKV(AllLevels(s))
        from == SelectSeq(rng, LAMBDA e : BytesLE(prefix, e[1]))
    IN TakeWhilePrefix(from, prefix)

\* SMV003::list_expire_index: range(expire_cursor..), live records only.
list_expire_index(s) ==
    LET rng == RangeExpire(AllLevels(s))
        from == SelectSeq(rng, LAMBDA e : ExpireKeyLE(s.expire_cursor, e[1]))
        live == SelectSeq(from, LAMBDA e : ~IsTombStone(e[2]))
    IN [i \in 1..Len(live) |-> <<live[i][1], live[i][2].value>>]

\* A variant of update_expire_cursor that follows the log time wherever it goes.
update_expire_cursor_Follows(s, log_time_ms) ==
    [s EXCEPT !.expire_cursor = ExpireKey(log_time_ms, 0)]

\* SMV003::update_expire_cursor: the cursor never moves backwards.
update_expire_cursor(s, log_time_ms) ==
    IF log_time_ms < s.expire_cursor[1] THEN s
    ELSE [s EXCEPT !.expire_cursor = ExpireKey(log_time_ms, 0)]

(***************************************************************************)
(* ApplierV003: applies one raft log entry to the state machine.           *)
(* An applier context is [sm, changes, panic]; panic is set where the code *)
(* aborts the process (assert_eq!, unreachable!).                          *)
(***************************************************************************)
Ctx(s, changes, panic) == [sm |-> s, changes |-> changes, panic |-> panic]

Change(key, prev, result) == [key |-> key, prev |-> prev, result |-> result]

\* A variant of push_change that queues the change whether or not the value
\* has changed.
push_change_Always(ctx, key, prev, result) ==
    [ctx EXCEPT !.changes = Append(@, Change(key, prev, result))]

\* ApplierV003::push_change: nothing is queued when prev = result.
push_change(ctx, key, prev, result) ==
    IF prev = result THEN ctx
    ELSE [ctx EXCEPT !.changes = Append(@, Change(key, prev, result))]

\* ApplierV003::upsert_kv, given the outcome r of SMV003::upsert_kv.
WithChange(ctx, key, r) ==
    [ctx |-> push_change([ctx EXCEPT !.sm = r.sm], key, r.prev, r.result),
     prev |-> r.prev, result |-> r.result]

\* ApplierV003::upsert_kv: upsert, then queue the change.
applier_upsert_kv(ctx, upsert_kv) ==
    WithChange(ctx, upsert_kv.key, sm_upsert_kv(ctx.sm, upsert_kv))

MatchAny == [t |-> "Any"]
MatchExact(n) == [t |-> "Exact", n |-> n]
MatchGE(n) == [t |-> "GE", n |-> n]
OpUpdate(v) == [t |-> "Update", v |-> v]
OpDelete == [t |-> "Delete"]
OpAsIs == [t |-> "AsIs"]

UpsertKV(key, seq, value, value_meta) ==
    [key |-> key, seq |-> seq, value |-> value, value_meta |-> value_meta]

\* UpsertKV::delete(key)
UpsertDelete(key) == UpsertKV(key, MatchAny, OpDelete, None)

\* ApplierV003::get_log_time: only a Normal entry carries a time; none reads as 0.
get_log_time(entry) ==
    IF entry.payload.t = "Normal"
    THEN (IF IsNone(entry.payload.time_ms) THEN 0 ELSE Unwrap(entry.payload.time_ms))
    ELSE 0

\* The expired head of the expiration index: the stream is read until the
\* first record that has not expired.
RECURSIVE TakeExpired(_, _)
TakeExpired(strm, log_time_ms) ==
    IF Len(strm) = 0 THEN <<>>
    ELSE IF ~IsExpired(strm[1][1], log_time_ms) THEN <<>>
    ELSE <<strm[1]>> \o TakeExpired(Tail(strm), log_time_ms)

\* One round of the loop of clean_expired_kvs: the record of an expired index
\* entry must exist with the same seq; it is deleted and the change queued.
CleanOne(ctx, expire_key, key, curr) ==
    IF IsNone(curr) \/ expire_key[2] # OptSeq(curr)
    THEN [ctx EXCEPT !.panic = TRUE]
    ELSE push_change([ctx EXCEPT !.sm = sm_upsert_kv(ctx.sm, UpsertDelete(key)).sm],
                     key, curr, None)

\* The loop of clean_expired_kvs over to_clean.
RECURSIVE CleanLoop(_, _)
CleanLoop(ctx, to_clean) ==
    IF Len(to_clean) = 0 \/ ctx.panic THEN ctx
    ELSE CleanLoop(CleanOne(ctx, to_clean[1][1], to_clean[1][2],
                            get_kv(ctx.sm, to_clean[1][2])),
                   Tail(to_clean))

\* The end of clean_expired_kvs: the cursor moves to the log time.
MoveCursor(c, log_time_ms) ==
    IF c.panic THEN c ELSE [c EXCEPT !.sm = update_expire_cursor(c.sm, log_time_ms)]

\* ApplierV003::clean_expired_kvs
clean_expired_kvs(ctx, log_time_ms) ==
    IF log_time_ms = 0 THEN ctx
    ELSE MoveCursor(CleanLoop(ctx, TakeExpired(list_expire_index(ctx.sm), log_time_ms)),
                    log_time_ms)

\* A variant of apply_add_node that replaces a node that is present whether
\* or not the command is overriding.
apply_add_node_AlwaysOverrides(ctx, node_id, node, overriding) ==
    [ctx |-> [ctx EXCEPT !.sm.writable.sys.nodes = (node_id :> node) @@ nodes_ref(ctx.sm)],
     reply |-> [t |-> "Node",
                prev |-> IF node_id \in DOMAIN nodes_ref(ctx.sm)
                         THEN Some(nodes_ref(ctx.sm)[node_id]) ELSE None,
                result |-> Some(node)]]

\* ApplierV003::apply_add_node
apply_add_node(ctx, node_id, node, overriding) ==
    LET nodes == nodes_ref(ctx.sm)
        prev == IF node_id \in DOMAIN nodes THEN Some(nodes[node_id]) ELSE None
        put == [ctx EXCEPT !.sm.writable.sys.nodes = (node_id :> node) @@ nodes]
    IN IF IsNone(prev) \/ overriding
       THEN [ctx |-> put, reply |-> [t |-> "Node", prev |-> prev, result |-> Some(node)]]
       ELSE [ctx |-> ctx, reply |-> [t |-> "Node", prev |-> prev, result |-> prev]]

\* ApplierV003::apply_remove_node
apply_remove_node(ctx, node_id) ==
    LET nodes == nodes_ref(ctx.sm)
        prev == IF node_id \in DOMAIN nodes THEN Some(nodes[node_id]) ELSE None
        rest == [n \in DOMAIN nodes \ {node_id} |-> nodes[n]]
    IN [ctx |-> [ctx EXCEPT !.sm.writable.sys.nodes = rest],
        reply |-> [t |-> "Node", prev |-> prev, result |-> None]]

KVReply(r) == [ctx |-> r.ctx, reply |-> [t |-> "KV", prev |-> r.prev, result |-> r.result]]

\* ApplierV003::apply_upsert_kv
apply_upsert_kv(ctx, upsert_kv) == KVReply(applier_upsert_kv(ctx, upsert_kv))

(***************************************************************************)
(* Transactions.                                                           *)
(***************************************************************************)
TargetSeq(n) == [t |-> "Seq", n |-> n]
TargetValue(v) == [t |-> "Value", v |-> v]
TxnCondition(key, expected, target) ==
    [key |-> key, expected |-> expected, target |-> target]

TxnGet(key) == [t |-> "Get", key |-> key]
TxnPut(key, value, expire_at, prev_value) ==
    [t |-> "Put", key |-> key, value |-> value, expire_at |-> expire_at,
     prev_value |-> prev_value]
TxnDelete(key, match_seq_opt, prev_value) ==
    [t |-> "Delete", key |-> key, match_seq |-> match_seq_opt, prev_value |-> prev_value]
TxnDeleteByPrefix(prefix) == [t |-> "DeleteByPrefix", prefix |-> prefix]

TxnRequest(condition, if_then, else_then) ==
    [condition |-> condition, if_then |-> if_then, else_then |-> else_then]

\* ApplierV003::eval_seq_condition; an unknown comparator is false.
eval_seq_condition(left, op, right) ==
    CASE op = "Eq" -> left = right
      [] op = "Gt" -> left > right
      [] op = "Lt" -> left < right
      [] op = "Ne" -> left # right
      [] op = "Ge" -> left >= right
      [] op = "Le" -> left <= right
      [] OTHER -> FALSE

\* ApplierV003::eval_value_condition: Vec<u8> compares lexicographically.
eval_value_condition(left, op, right) ==
    CASE op = "Eq" -> left = right
      [] op = "Gt" -> BytesLT(right, left)
      [] op = "Lt" -> BytesLT(left, right)
      [] op = "Ne" -> left # right
      [] op = "Ge" -> BytesLE(right, left)
      [] op = "Le" -> BytesLE(left, right)
      [] OTHER -> FALSE

\* A variant of eval_condition_on in which an absent key reads as the empty
\* value for a Value target.
eval_condition_on_AbsentIsEmpty(seqv, cond) ==
    IF IsNone(cond.target) THEN FALSE
    ELSE IF Unwrap(cond.target).t = "Seq"
    THEN eval_seq_condition(OptSeq(seqv), cond.expected, Unwrap(cond.target).n)
    ELSE eval_value_condition(IF IsSome(seqv) THEN Unwrap(seqv).data ELSE <<>>,
                              cond.expected, Unwrap(cond.target).v)

\* The body of eval_one_condition, given the value seqv read for the key.
eval_condition_on(seqv, cond) ==
    IF IsNone(cond.target) THEN FALSE
    ELSE IF Unwrap(cond.target).t = "Seq"
    THEN eval_seq_condition(OptSeq(seqv), cond.expected, Unwrap(cond.target).n)
    ELSE IF IsSome(seqv)
    THEN eval_value_condition(Unwrap(seqv).data, cond.expected, Unwrap(cond.target).v)
    ELSE FALSE

\* ApplierV003::eval_one_condition
eval_one_condition(s, cond) == eval_condition_on(get_kv(s, cond.key), cond)

\* A variant of eval_txn_conditions that is satisfied by any one condition.
eval_txn_conditions_Any(s, condition) ==
    \E i \in 1..Len(condition) : eval_one_condition(s, condition[i])

\* ApplierV003::eval_txn_conditions: all conditions hold (an empty list holds).
eval_txn_conditions(s, condition) ==
    \A i \in 1..Len(condition) : eval_one_condition(s, condition[i])

\* ApplierV003::into_pb_seq_v: the protobuf SeqV carries no meta.
into_pb_seq_v(seq_v) == [seq |-> seq_v.seq, data |-> seq_v.data]
OptPb(o) == IF IsNone(o) THEN None ELSE Some(into_pb_seq_v(Unwrap(o)))

\* ApplierV003::txn_execute_get
txn_execute_get(ctx, get) ==
    [ctx |-> ctx,
     resp |-> <<[t |-> "Get", key |-> get.key, value |-> OptPb(get_kv(ctx.sm, get.key))]>>]

PutResponse(put, r) ==
    [ctx |-> r.ctx,
     resp |-> <<[t |-> "Put", key |-> put.key,
                 prev_value |-> IF put.prev_value THEN OptPb(r.prev) ELSE None]>>]

\* ApplierV003::txn_execute_put
txn_execute_put(ctx, put) ==
    PutResponse(put, applier_upsert_kv(ctx,
        UpsertKV(put.key, MatchAny, OpUpdate(put.value), Some(KVMeta(put.expire_at)))))

DeleteResponse(delete, r) ==
    [ctx |-> r.ctx,
     resp |-> <<[t |-> "Delete", key |-> delete.key,
                 success |-> IsSome(r.prev) /\ IsNone(r.result),
                 prev_value |-> IF delete.prev_value THEN OptPb(r.prev) ELSE None]>>]

\* ApplierV003::txn_execute_delete: match_seq, when given, must be the exact seq.
txn_execute_delete(ctx, delete) ==
    DeleteResponse(delete, applier_upsert_kv(ctx,
        UpsertKV(delete.key,
                 IF IsSome(delete.match_seq)
                 THEN MatchExact(Unwrap(delete.match_seq)) ELSE MatchAny,
                 OpDelete, None)))

\* One round of the loop of txn_execute_delete_by_prefix: the change that
\* ApplierV003::upsert_kv has queued is pushed once more by the loop.
PushAgain(key, r) == push_change(r.ctx, key, r.prev, r.result)

\* The loop of txn_execute_delete_by_prefix.
RECURSIVE DeleteLoop(_, _)
DeleteLoop(ctx, kvs) ==
    IF Len(kvs) = 0 THEN ctx
    ELSE DeleteLoop(PushAgain(kvs[1][1], applier_upsert_kv(ctx, UpsertDelete(kvs[1][1]))),
                    Tail(kvs))

DeleteByPrefixResponse(ctx, prefix, kvs) ==
    [ctx |-> DeleteLoop(ctx, kvs),
     resp |-> <<[t |-> "DeleteByPrefix", prefix |-> prefix, count |-> Len(kvs)]>>]

\* ApplierV003::txn_execute_delete_by_prefix
txn_execute_delete_by_prefix(ctx, delete_by_prefix) ==
    DeleteByPrefixResponse(ctx, delete_by_prefix.prefix,
                           prefix_list_kv(ctx.sm, delete_by_prefix.prefix))

\* ApplierV003::txn_execute_operation: an op without a request answers nothing.
txn_execute_operation(ctx, op) ==
    CASE op.t = "Get" -> txn_execute_get(ctx, op)
      [] op.t = "Put" -> txn_execute_put(ctx, op)
      [] op.t = "Delete" -> txn_execute_delete(ctx, op)
      [] op.t = "DeleteByPrefix" -> txn_execute_delete_by_prefix(ctx, op)
      [] OTHER -> [ctx |-> ctx, resp |-> <<>>]

\* The responses of the ops of a list, each run on the same state.
RECURSIVE RespsOn(_, _)
RespsOn(ctx, ops) ==
    IF Len(ops) = 0 THEN <<>>
    ELSE txn_execute_operation(ctx, ops[1]).resp \o RespsOn(ctx, Tail(ops))

\* A variant of ExecOps that runs every op on the state the transaction
\* started with and keeps the effects of the last op alone.
ExecOps_Isolated(ctx, ops, responses) ==
    [ctx |-> IF Len(ops) = 0 THEN ctx ELSE txn_execute_operation(ctx, ops[Len(ops)]).ctx,
     responses |-> responses \o RespsOn(ctx, ops)]

\* The loop of apply_txn over the ops of the chosen branch.
RECURSIVE ExecOps(_, _, _), ExecNext(_, _, _)
ExecOps(ctx, ops, responses) ==
    IF Len(ops) = 0 THEN [ctx |-> ctx, responses |-> responses]
    ELSE ExecNext(txn_execute_operation(ctx, ops[1]), Tail(ops), responses)

\* The next round of the loop, given the outcome r of the op before.
ExecNext(r, ops, responses) == ExecOps(r.ctx, ops, responses \o r.resp)

TxnReply(success, r) ==
    [ctx |-> r.ctx,
     reply |-> [t |-> "TxnReply", success |-> success, responses |-> r.responses]]

\* The branch of a transaction that runs.
Branch(req, success) == IF success THEN req.if_then ELSE req.else_then

\* ApplierV003::apply_txn
apply_txn(ctx, req) ==
    TxnReply(eval_txn_conditions(ctx.sm, req.condition),
             ExecOps(ctx, Branch(req, eval_txn_conditions(ctx.sm, req.condition)), <<>>))

CmdAddNode(node_id, node, overriding) ==
    [cmd |-> "AddNode", node_id |-> node_id, node |-> node, overriding |-> overriding]
CmdRemoveNode(node_id) == [cmd |-> "RemoveNode", node_id |-> node_id]
CmdUpsertKV(upsert_kv) == [cmd |-> "UpsertKV", upsert_kv |-> upsert_kv]
CmdTransaction(txn) == [cmd |-> "Transaction", txn |-> txn]

\* ApplierV003::apply_cmd
apply_cmd(ctx, cmd) ==
    CASE cmd.cmd = "AddNode" -> apply_add_node(ctx, cmd.node_id, cmd.node, cmd.overriding)
      [] cmd.cmd = "RemoveNode" -> apply_remove_node(ctx, cmd.node_id)
      [] cmd.cmd = "UpsertKV" -> apply_upsert_kv(ctx, cmd.upsert_kv)
      [] cmd.cmd = "Transaction" -> apply_txn(ctx, cmd.txn)

PayloadBlank == [t |-> "Blank"]
PayloadMembership(m) == [t |-> "Membership", m |-> m]
PayloadNormal(time_ms, cmd) == [t |-> "Normal", time_ms |-> time_ms, cmd |-> cmd]
Entry(log_id, payload) == [log_id |-> log_id, payload |-> payload]

ReplyNone == [t |-> "None"]

\* The payload of an entry, run after the sweep and with last_applied stamped.
apply_payload(c1, entry) ==
    CASE entry.payload.t = "Blank" -> [ctx |-> c1, reply |-> ReplyNone]
      [] entry.payload.t = "Normal" -> apply_cmd(c1, entry.payload.cmd)
      [] entry.payload.t = "Membership" ->
           [ctx |-> [c1 EXCEPT !.sm.writable.sys.last_membership =
                        [log_id |-> Some(entry.log_id), membership |-> entry.payload.m]],
            reply |-> ReplyNone]

Applied(r) ==
    [sm |-> r.ctx.sm, reply |-> r.reply, changes |-> r.ctx.changes, panic |-> FALSE]

\* A variant of apply_swept that keeps the greater of last_applied and the
\* log id of the entry.
apply_swept_KeepsGreatest(s, c0, entry) ==
    IF c0.panic
    THEN [sm |-> s, reply |-> ReplyNone, changes |-> <<>>, panic |-> TRUE]
    ELSE Applied(apply_payload(
             [c0 EXCEPT !.sm.writable.sys.last_applied =
                 IF OptLogIdLE(Some(entry.log_id), @) THEN @ ELSE Some(entry.log_id)],
             entry))

\* A variant of apply_swept that leaves last_applied as it is when the entry
\* is a Membership entry.
apply_swept_MembershipUnstamped(s, c0, entry) ==
    IF c0.panic
    THEN [sm |-> s, reply |-> ReplyNone, changes |-> <<>>, panic |-> TRUE]
    ELSE Applied(apply_payload(
             [c0 EXCEPT !.sm.writable.sys.last_applied =
                 IF entry.payload.t = "Membership" THEN @ ELSE Some(entry.log_id)],
             entry))

\* ApplierV003::apply after clean_expired_kvs has left the context c0.
apply_swept(s, c0, entry) ==
    IF c0.panic
    THEN [sm |-> s, reply |-> ReplyNone, changes |-> <<>>, panic |-> TRUE]
    ELSE Applied(apply_payload(
             [c0 EXCEPT !.sm.writable.sys.last_applied = Some(entry.log_id)], entry))

\* A variant of apply that runs the payload first and sweeps the expired
\* records after it.
SweptAfter(r, entry) ==
    [sm |-> clean_expired_kvs(Ctx(r.sm, r.changes, FALSE), get_log_time(entry)).sm,
     reply |-> r.reply,
     changes |-> clean_expired_kvs(Ctx(r.sm, r.changes, FALSE), get_log_time(entry)).changes,
     panic |-> clean_expired_kvs(Ctx(r.sm, r.changes, FALSE), get_log_time(entry)).panic]

apply_PayloadFirst(s, entry) ==
    SweptAfter(apply_swept(s, Ctx(s, <<>>, FALSE), entry), entry)

\* ApplierV003::apply: sweep the expired, stamp last_applied, run the payload.
\* The result carries the state machine, the reply and the queued changes.
apply(s, entry) ==
    apply_swept(s, clean_expired_kvs(Ctx(s, <<>>, FALSE), get_log_time(entry)), entry)

(***************************************************************************)
(* The subscriber: apply_entries runs one applier over a batch of entries; *)
(* each apply ends by sending the queued change events to the subscriber.  *)
(***************************************************************************)
\* A call of StateMachineSubscriber::kv_changed, with the log id of the entry
\* that was being applied when it was made.
Delivery(log_id, event) == [log_id |-> log_id, event |-> event]

\* ApplierV003::apply up to the payload, on an applier that holds the queue
\* `changes` of the entries before.
apply_queued(s, changes, entry) ==
    apply_swept(s, clean_expired_kvs(Ctx(s, changes, FALSE), get_log_time(entry)), entry)

Reversed(q) == [i \in 1..Len(q) |-> q[Len(q) + 1 - i]]

\* A variant of send_changes that takes the events from the back of the queue.
send_changes_FromBack(sub, entry, r) ==
    IF IsSome(sub) /\ ~r.panic
    THEN [sm |-> r.sm, reply |-> r.reply, changes |-> <<>>, panic |-> r.panic,
          subscriber |->
              Some(Unwrap(sub) \o [i \in 1..Len(r.changes) |->
                                      Delivery(entry.log_id, Reversed(r.changes)[i])])]
    ELSE [sm |-> r.sm, reply |-> r.reply, changes |-> r.changes, panic |-> r.panic,
          subscriber |-> sub]

\* The end of ApplierV003::apply: with a subscriber set, the queue is drained
\* into it, front first; without one the events stay queued.
send_changes(sub, entry, r) ==
    IF IsSome(sub) /\ ~r.panic
    THEN [sm |-> r.sm, reply |-> r.reply, changes |-> <<>>, panic |-> r.panic,
          subscriber |->
              Some(Unwrap(sub) \o [i \in 1..Len(r.changes) |->
                                      Delivery(entry.log_id, r.changes[i])])]
    ELSE [sm |-> r.sm, reply |-> r.reply, changes |-> r.changes, panic |-> r.panic,
          subscriber |-> sub]

\* The state of the loop of apply_entries after an entry with outcome r.
EntryApplied(acc, r) ==
    [sm |-> r.sm, changes |-> r.changes, subscriber |-> r.subscriber,
     replies |-> Append(acc.replies, r.reply), panic |-> r.panic]

\* The loop of SMV003::apply_entries.
RECURSIVE ApplyLoop(_, _)
ApplyLoop(acc, entries) ==
    IF Len(entries) = 0 \/ acc.panic THEN acc
    ELSE ApplyLoop(
             EntryApplied(acc, send_changes(acc.subscriber, entries[1],
                                            apply_queued(acc.sm, acc.changes, entries[1]))),
             Tail(entries))

\* SMV003::apply_entries: a new applier, then apply for each entry in turn.
apply_entries(s, sub, entries) ==
    ApplyLoop([sm |-> s, changes |-> <<>>, subscriber |-> sub, replies |-> <<>>,
               panic |-> FALSE],
              entries)

(***************************************************************************)
(* Freezing, snapshot views, compaction and export.                        *)
(***************************************************************************)
\* A variant of freeze_writable that freezes a new empty level and leaves
\* the writable level writable.
freeze_writable_KeepsWritable(s, id) ==
    [s EXCEPT !.frozen = Append(s.frozen, Arc(id, NewLevel(s.writable)))]

\* LeveledMap::freeze_writable: the writable level becomes the newest frozen
\* Arc and a new empty level, inheriting the sys-data, becomes writable.
freeze_writable(s, id) ==
    [s EXCEPT !.frozen = Append(s.frozen, Arc(id, s.writable)),
              !.writable = NewLevel(s.writable)]

\* SnapshotViewV003::new
SnapshotView(top) == [compacted |-> top, original |-> top]

Newest(frozen) == frozen[Len(frozen)]

LiveOf(rng) == SelectSeq(rng, LAMBDA e : ~IsTombStone(e[2]))
MapOfRange(rng) ==
    [k \in {rng[i][1] : i \in 1..Len(rng)} |->
        (CHOOSE e \in {rng[i] : i \in 1..Len(rng)} : e[1] = k)[2]]

\* SnapshotViewV003::build_snapshot_meta: last_applied and last_membership of
\* the newest level; the snapshot id is last_applied with the epoch of the
\* call, which the model leaves out.
build_snapshot_meta(v) ==
    [last_log_id |-> Newest(v.compacted).d.sys.last_applied,
     last_membership |-> Newest(v.compacted).d.sys.last_membership]

\* A variant of compact_mem_levels that keeps the records of the newest
\* level only.
compact_mem_levels_NewestOnly(v) ==
    IF Len(v.compacted) <= 1 THEN v
    ELSE [v EXCEPT !.compacted =
            <<Arc(0 - Newest(v.original).id,
                  [NewLevel(Newest(v.compacted).d) EXCEPT
                      !.kv = MapOfRange(LiveOf(RangeKV(<<Newest(v.compacted).d>>))),
                      !.expire = MapOfRange(LiveOf(RangeExpire(<<Newest(v.compacted).d>>)))])>>]

\* A variant of compact_mem_levels that merges the levels and keeps the
\* tombstones of the merged ranges.
compact_mem_levels_KeepsTombstones(v) ==
    IF Len(v.compacted) <= 1 THEN v
    ELSE [v EXCEPT !.compacted =
            <<Arc(0 - Newest(v.original).id,
                  [NewLevel(Newest(v.compacted).d) EXCEPT
                      !.kv = MapOfRange(RangeKV(ArcLevels(v.compacted))),
                      !.expire = MapOfRange(RangeExpire(ArcLevels(v.compacted)))])>>]

\* SnapshotViewV003::compact_mem_levels: more than one level is merged into
\* one fresh level without tombstones; a single level is left as it is.
\* The Arc of the merged level is a new one: a view compacts at most once,
\* so the negated identity of its newest original level names it.
compact_mem_levels(v) ==
    IF Len(v.compacted) <= 1 THEN v
    ELSE LET levels == ArcLevels(v.compacted)
             data == [NewLevel(Newest(v.compacted).d) EXCEPT
                         !.kv = MapOfRange(LiveOf(RangeKV(levels))),
                         !.expire = MapOfRange(LiveOf(RangeExpire(levels)))]
         IN [v EXCEPT !.compacted = <<Arc(0 - Newest(v.original).id, data)>>]

EntryDataHeader == [t |-> "DataHeader", key |-> "header", version |-> "V003"]
EntryLastApplied(log_id) == [t |-> "LastApplied", value |-> log_id]
EntryLastMembership(m) == [t |-> "LastMembership", value |-> m]
EntrySequences(key, n) == [t |-> "Sequences", key |-> key, value |-> n]
EntryNodes(id, node) == [t |-> "Nodes", key |-> id, value |-> node]
EntryGenericKV(key, seqv) == [t |-> "GenericKV", key |-> key, value |-> seqv]
EntryExpire(key, ev) == [t |-> "Expire", key |-> key, value |-> ev]

\* The node ids of a BTreeMap<NodeId, Node> in ascending order.
RECURSIVE SortedIds(_)
SortedIds(S) ==
    IF S = {} THEN <<>>
    ELSE LET m == CHOOSE x \in S : \A y \in S : x <= y
         IN <<m>> \o SortedIds(S \ {m})

\* A variant of export that chains the expiration records before the kv records.
export_ExpireFirst(v) ==
    LET d == Newest(v.compacted).d
        levels == ArcLevels(v.compacted)
        ids == SortedIds(DOMAIN d.sys.nodes)
        kvs == LiveOf(RangeKV(levels))
        exps == LiveOf(RangeExpire(levels))
    IN <<EntryDataHeader>>
       \o (IF IsSome(d.sys.last_applied)
           THEN <<EntryLastApplied(Unwrap(d.sys.last_applied))>> ELSE <<>>)
       \o <<EntryLastMembership(d.sys.last_membership)>>
       \o <<EntrySequences("generic-kv", d.sys.seq)>>
       \o [i \in 1..Len(ids) |-> EntryNodes(ids[i], d.sys.nodes[ids[i]])]
       \o [i \in 1..Len(exps) |->
             EntryExpire(exps[i][1],
                         [key |-> exps[i][2].value, seq |-> exps[i][2].internal_seq])]
       \o [i \in 1..Len(kvs) |->
             EntryGenericKV(kvs[i][1], SeqV(kvs[i][2].internal_seq, kvs[i][2].meta,
                                            kvs[i][2].value))]

\* SnapshotViewV003::export: sys-data of the newest level, then the live kv
\* records in key order, then the live expiration records in ExpireKey order.
export(v) ==
    LET d == Newest(v.compacted).d
        levels == ArcLevels(v.compacted)
        ids == SortedIds(DOMAIN d.sys.nodes)
        kvs == LiveOf(RangeKV(levels))
        exps == LiveOf(RangeExpire(levels))
    IN <<EntryDataHeader>>
       \o (IF IsSome(d.sys.last_applied)
           THEN <<EntryLastApplied(Unwrap(d.sys.last_applied))>> ELSE <<>>)
       \o <<EntryLastMembership(d.sys.last_membership)>>
       \o <<EntrySequences("generic-kv", d.sys.seq)>>
       \o [i \in 1..Len(ids) |-> EntryNodes(ids[i], d.sys.nodes[ids[i]])]
       \o [i \in 1..Len(kvs) |->
             EntryGenericKV(kvs[i][1], SeqV(kvs[i][2].internal_seq, kvs[i][2].meta,
                                            kvs[i][2].value))]
       \o [i \in 1..Len(exps) |->
             EntryExpire(exps[i][1],
                         [key |-> exps[i][2].value, seq |-> exps[i][2].internal_seq])]

(***************************************************************************)
(* Importer and snapshot installation.                                     *)
(***************************************************************************)
Importer0 ==
    [level_data |-> LevelData0, kv |-> EmptyMap, expire |-> EmptyMap, greatest_seq |-> 0]

\* A variant of import that drops the meta of a kv record.
import_DropsMeta(imp, ent) ==
    CASE ent.t = "Nodes" ->
           [imp EXCEPT !.level_data.sys.nodes = (ent.key :> ent.value) @@ @]
      [] ent.t = "LastApplied" ->
           [imp EXCEPT !.level_data.sys.last_applied = Some(ent.value)]
      [] ent.t = "LastMembership" ->
           [imp EXCEPT !.level_data.sys.last_membership = ent.value]
      [] ent.t = "Expire" ->
           [imp EXCEPT !.greatest_seq = Max(@, ent.value.seq),
                       !.expire = MapPut(@, ent.key, Normal(ent.value.seq, ent.value.key, None))]
      [] ent.t = "GenericKV" ->
           [imp EXCEPT !.greatest_seq = Max(@, ent.value.seq),
                       !.kv = MapPut(@, ent.key, Normal(ent.value.seq, ent.value.data, None))]
      [] ent.t = "Sequences" ->
           [imp EXCEPT !.level_data.sys.seq = ent.value]
      [] OTHER -> imp

\* A variant of import that keeps the seq 0 of a legacy Expire entry.
import_LegacySeqZero(imp, ent) ==
    CASE ent.t = "Nodes" ->
           [imp EXCEPT !.level_data.sys.nodes = (ent.key :> ent.value) @@ @]
      [] ent.t = "LastApplied" ->
           [imp EXCEPT !.level_data.sys.last_applied = Some(ent.value)]
      [] ent.t = "LastMembership" ->
           [imp EXCEPT !.level_data.sys.last_membership = ent.value]
      [] ent.t = "Expire" ->
           [imp EXCEPT !.greatest_seq = Max(@, ent.value.seq),
                       !.expire = MapPut(@, ent.key, Normal(ent.value.seq, ent.value.key, None))]
      [] ent.t = "GenericKV" ->
           [imp EXCEPT !.greatest_seq = Max(@, ent.value.seq),
                       !.kv = MapPut(@, ent.key,
                                     Normal(ent.value.seq, ent.value.data, ent.value.meta))]
      [] ent.t = "Sequences" ->
           [imp EXCEPT !.level_data.sys.seq = ent.value]
      [] OTHER -> imp

\* A variant of import that starts the importer afresh at a DataHeader entry.
import_HeaderResets(imp, ent) ==
    CASE ent.t = "Nodes" ->
           [imp EXCEPT !.level_data.sys.nodes = (ent.key :> ent.value) @@ @]
      [] ent.t = "LastApplied" ->
           [imp EXCEPT !.level_data.sys.last_applied = Some(ent.value)]
      [] ent.t = "LastMembership" ->
           [imp EXCEPT !.level_data.sys.last_membership = ent.value]
      [] ent.t = "Expire" ->
           [imp EXCEPT !.greatest_seq = Max(@, IF ent.value.seq = 0 THEN 1 ELSE ent.value.seq),
                       !.expire = MapPut(@, ent.key,
                                         Normal(IF ent.value.seq = 0 THEN 1 ELSE ent.value.seq,
                                                ent.value.key, None))]
      [] ent.t = "GenericKV" ->
           [imp EXCEPT !.greatest_seq = Max(@, ent.value.seq),
                       !.kv = MapPut(@, ent.key,
                                     Normal(ent.value.seq, ent.value.data, ent.value.meta))]
      [] ent.t = "Sequences" ->
           [imp EXCEPT !.level_data.sys.seq = ent.value]
      [] ent.t = "DataHeader" -> Importer0
      [] OTHER -> imp

\* Importer::import of one entry.
import(imp, ent) ==
    CASE ent.t = "Nodes" ->
           [imp EXCEPT !.level_data.sys.nodes = (ent.key :> ent.value) @@ @]
      [] ent.t = "LastApplied" ->
           [imp EXCEPT !.level_data.sys.last_applied = Some(ent.value)]
      [] ent.t = "LastMembership" ->
           [imp EXCEPT !.level_data.sys.last_membership = ent.value]
      [] ent.t = "Expire" ->
           LET seq == IF ent.value.seq = 0 THEN 1 ELSE ent.value.seq
           IN [imp EXCEPT !.greatest_seq = Max(@, seq),
                          !.expire = MapPut(@, ent.key, Normal(seq, ent.value.key, None))]
      [] ent.t = "GenericKV" ->
           [imp EXCEPT !.greatest_seq = Max(@, ent.value.seq),
                       !.kv = MapPut(@, ent.key,
                                     Normal(ent.value.seq, ent.value.data, ent.value.meta))]
      [] ent.t = "Sequences" ->
           [imp EXCEPT !.level_data.sys.seq = ent.value]
      [] OTHER -> imp

RECURSIVE ImportAll(_, _)
ImportAll(imp, data) ==
    IF Len(data) = 0 THEN imp ELSE ImportAll(import(imp, data[1]), Tail(data))

\* Importer::commit: the assertion greatest_seq <= curr_seq, then the level.
commit_ok(imp) == imp.greatest_seq <= imp.level_data.sys.seq
commit(imp) == [imp.level_data EXCEPT !.kv = imp.kv, !.expire = imp.expire]

\* SMV003::replace: the assertion new_applied >= applied.
replace_ok(s, level) == OptLogIdLE(last_applied_ref(s), level.sys.last_applied)
\* A variant of replace that keeps the expiration cursor of the state
\* machine replaced.
replace_KeepsCursor(s, level) == SMV003(<<>>, level, s.expire_cursor)

\* SMV003::replace: one level, and the expiration cursor back at (0, 0).
replace(s, level) == SMV003(<<>>, level, ExpireKey(0, 0))

\* A variant of install_skipped that compares with < where the code has <=:
\* a snapshot as old as the state machine is installed.
install_skipped_Strict(s, level_data) ==
    OptLogIdLT(level_data.sys.last_applied, last_applied_ref(s))
        /\ IsSome(last_applied_ref(s))

\* A variant of install_skipped without the test that the state machine has
\* applied something: a snapshot without last_applied is skipped by a state
\* machine without last_applied.
install_skipped_AlsoWhenNone(s, level_data) ==
    OptLogIdLE(level_data.sys.last_applied, last_applied_ref(s))

\* The test of SMV003::install_snapshot under the lock: a snapshot that is
\* not newer than a state machine that has applied something is skipped.
install_skipped(s, level_data) ==
    OptLogIdLE(level_data.sys.last_applied, last_applied_ref(s))
        /\ IsSome(last_applied_ref(s))

\* The part of install_snapshot under the write lock: skip, or replace; the
\* assertion of replace aborts the process.
install_locked(s, level_data) ==
    IF install_skipped(s, level_data) THEN [sm |-> s, panic |-> FALSE]
    ELSE IF ~replace_ok(s, level_data) THEN [sm |-> s, panic |-> TRUE]
    ELSE [sm |-> replace(s, level_data), panic |-> FALSE]

\* A variant of replace_base that replaces the writable level too, by a fresh
\* level on top of the compacted base: what was written since is lost.
replace_base_DropsWritable(s, v) ==
    [s EXCEPT !.frozen = v.compacted, !.writable = NewLevel(Newest(v.compacted).d)]

\* A variant of replace_base_ok that accepts any base: the newest frozen level
\* need not be the one the snapshot was taken of.
replace_base_ok_AnyBase(s, v) == Len(s.frozen) > 0 /\ Len(v.original) > 0

\* SMV003::replace_base: the assertion that the base has not changed.
replace_base_ok(s, v) ==
    Len(s.frozen) > 0 /\ Len(v.original) > 0
        /\ Newest(s.frozen).id = Newest(v.original).id
replace_base(s, v) == [s EXCEPT !.frozen = v.compacted]

(***************************************************************************)
(* The inputs: keys "a", "ab", "b"; values; log times and expiry times.    *)
(***************************************************************************)
KeyA == <<1>>
KeyAB == <<1, 2>>
KeyB == <<2>>
Keys == {KeyA, KeyAB, KeyB}
V1 == <<1>>
V2 == <<2>>

Expire1s == Some(KVMeta(Some(1)))
Expire2s == Some(KVMeta(Some(2)))

Node1 == [name |-> "1", endpoint |-> 1]
Node2 == [name |-> "2", endpoint |-> 2]

LogTimes == {None, Some(1000), Some(2000)}

UpsertCmds ==
    { CmdUpsertKV(UpsertKV(KeyA, MatchAny, OpUpdate(V1), None)),
      CmdUpsertKV(UpsertKV(KeyA, MatchAny, OpUpdate(V2), Expire2s)),
      CmdUpsertKV(UpsertKV(KeyB, MatchAny, OpUpdate(V1), Expire1s)),
      CmdUpsertKV(UpsertKV(KeyA, MatchAny, OpDelete, None)),
      CmdUpsertKV(UpsertKV(KeyA, MatchExact(0), OpUpdate(V2), Expire1s)),
      CmdUpsertKV(UpsertKV(KeyA, MatchGE(1), OpAsIs, Expire2s)),
      CmdUpsertKV(UpsertKV(KeyB, MatchExact(1), OpDelete, None)) }

TxnCmds ==
    { CmdTransaction(TxnRequest(
          <<TxnCondition(KeyA, "Eq", Some(TargetSeq(1)))>>,
          <<TxnPut(KeyA, V2, None, TRUE), TxnGet(KeyA)>>,
          <<TxnPut(KeyAB, V1, Some(2), FALSE)>>)),
      CmdTransaction(TxnRequest(
          <<TxnCondition(KeyB, "Ge", Some(TargetValue(V1)))>>,
          <<TxnDeleteByPrefix(KeyA)>>,
          <<TxnGet(KeyB), TxnDelete(KeyA, Some(1), TRUE)>>)) }

NodeCmds ==
    { CmdAddNode(1, Node1, FALSE), CmdAddNode(1, Node2, TRUE), CmdRemoveNode(1) }

Payloads ==
    {PayloadBlank, PayloadMembership(1)}
      \cup {PayloadNormal(None, c) : c \in NodeCmds}
      \cup {PayloadNormal(t, c) : t \in LogTimes, c \in UpsertCmds \cup TxnCmds}

(***************************************************************************)
(* OnDisk: the data version kept in the header tree and the upgrade of the *)
(* data on disk from one version to the next.                              *)
(***************************************************************************)
DataVersions == <<"V0", "V001", "V002", "V003">>

\* The working data version of the program.
DATA_VERSION == "V003"

\* The order of the data versions.
VersionRank(v) == CHOOSE i \in 1..Len(DataVersions) : DataVersions[i] = v

\* DataVersion::next
VersionNext(v) ==
    IF VersionRank(v) < Len(DataVersions)
    THEN Some(DataVersions[VersionRank(v) + 1]) ELSE None

Header(version, upgrading) == [version |-> version, upgrading |-> upgrading]

\* A record of a sled tree: an entry in the encoding of one generation of
\* openraft, "v07" or "v08".
Encoded(gen, entry) == [gen |-> gen, entry |-> entry]

\* RaftStoreEntryCompat::deserialize loads a record of either generation.
deserialize_compat(bytes) == bytes.entry

\* RaftStoreEntry::deserialize loads a record of the generation "v08" only.
deserialize(bytes) == IF bytes.gen = "v08" THEN Some(bytes.entry) ELSE None

\* RaftStoreEntry::serialize writes the generation "v08".
serialize(entry) == Encoded("v08", entry)

\* The trees other than the header tree, in the order of OnDisk::tree_names.
TreeOrder == <<"raft_state", "raft_log", "state_machine/1", "state_machine/2">>

\* OnDisk::tree_names without the header tree, which upgrade_v0_to_v001
\* removes from the list.
tree_names(d) == SelectSeq(TreeOrder, LAMBDA n : n \in DOMAIN d.trees)

\* The state machine trees present.
StateMachineTrees(d) == DOMAIN d.trees \cap {"state_machine/1", "state_machine/2"}

\* A variant of v001_read_state_machine_tree_name that takes the state
\* machine tree of the largest id.
v001_read_state_machine_tree_name_Largest(d) ==
    IF "state_machine/2" \in DOMAIN d.trees THEN Some("state_machine/2")
    ELSE IF "state_machine/1" \in DOMAIN d.trees THEN Some("state_machine/1")
    ELSE None

\* OnDisk::v001_read_state_machine_tree_name: the tree of the smallest id.
v001_read_state_machine_tree_name(d) ==
    IF "state_machine/1" \in DOMAIN d.trees THEN Some("state_machine/1")
    ELSE IF "state_machine/2" \in DOMAIN d.trees THEN Some("state_machine/2")
    ELSE None

\* sled::Db::drop_tree
DropTree(trees, name) == [n \in DOMAIN trees \ {name} |-> trees[n]]

\* What is on disk: the header record, the other trees, the V002 snapshot
\* file; the trees the run started from, the number of crashes and of
\* resumed upgrades so far, and the least version the program opens.
Disk(header, trees, snapshot, min_compatible) ==
    [header |-> header, trees |-> trees, snapshot |-> snapshot, initial |-> trees,
     crashes |-> 0, resumes |-> 0, min_compatible |-> min_compatible]

\* An empty data directory.
Disk0 == Disk(None, EmptyMap, None, "V0")

\* Greatest index of a raft log entry held by the RaftStore.
MaxLogIndex == 3

\* Greatest term of a raft log id.
MaxTerm == 2

\* The result of the last call of a RaftStore method: the LogState returned
\* by get_log_state, the calls of the LogFlushed callback, the value returned.
RaftResult(s, op, log_state, callback, returned) ==
    [s EXCEPT !.op = op, !.log_state = log_state, !.callback = callback,
              !.returned = returned]

\* RaftStore of a node that stored no log: `log` maps an index to the term of
\* the entry stored there (0: no entry), `tasks` are the spawned removals of
\* purge that did not run yet, `reading` is the last_purged that a call of
\* get_log_state in progress has read.
RaftStore0 ==
    [log |-> [i \in 1..MaxLogIndex |-> 0], last_purged |-> None, tasks |-> {},
     reading |-> None, log_state |-> None, callback |-> <<>>, returned |-> "",
     op |-> "init"]

\* OnDisk: the header in memory and the place of the process in upgrade();
\* in upgrade_v0_to_v001, the tree and the record it is at and the records
\* of that tree written since the last flush.
OnDisk(header, pc, t, i, unflushed) ==
    [header |-> header, pc |-> pc, t |-> t, i |-> i, unflushed |-> unflushed]

\* A variant of resume_upgrading that cleans up and finishes an unfinished
\* upgrade to V001 as it does one to V002, without running the transition again.
resume_upgrading_FinishesV001(u, has_snapshot) ==
    CASE IsNone(u) -> "loop"
      [] u = Some("V0") -> "panic"
      [] u = Some("V001") -> "remove"
      [] u = Some("V002") -> IF has_snapshot THEN "remove" ELSE "clear"
      [] u = Some("V003") -> "panic"

\* A variant of resume_upgrading that removes the state machine trees of an
\* unfinished upgrade to V002 whether or not a V002 snapshot exists.
resume_upgrading_RemovesAnyway(u, has_snapshot) ==
    CASE IsNone(u) -> "loop"
      [] u = Some("V0") -> "panic"
      [] u = Some("V001") -> "clear"
      [] u = Some("V002") -> "remove"
      [] u = Some("V003") -> "panic"

\* A variant of resume_upgrading that goes on to the loop of upgrade() with
\* the upgrading flag of an unfinished upgrade to V001 still set.
resume_upgrading_KeepsFlag(u, has_snapshot) ==
    CASE IsNone(u) -> "loop"
      [] u = Some("V0") -> "panic"
      [] u = Some("V001") -> "loop"
      [] u = Some("V002") -> IF has_snapshot THEN "remove" ELSE "clear"
      [] u = Some("V003") -> "panic"

\* OnDisk::upgrade, the match on an unfinished upgrade: what runs next.
resume_upgrading(u, has_snapshot) ==
    CASE IsNone(u) -> "loop"
      [] u = Some("V0") -> "panic"
      [] u = Some("V001") -> "clear"
      [] u = Some("V002") -> IF has_snapshot THEN "remove" ELSE "clear"
      [] u = Some("V003") -> "panic"

\* A variant of reencode that keeps the bytes of a record as they are.
reencode_KeepsBytes(bytes) == bytes

\* upgrade_v0_to_v001 on one record: load either generation, write "v08".
reencode(bytes) == serialize(deserialize_compat(bytes))

\* The entries of a tree that v001_dump_state_machine_to_v002_snapshot
\* writes: every record but the StateMachineMeta of key Initialized.
SnapshotEntries(tree) ==
    SelectSeq([i \in 1..Len(tree) |-> tree[i].entry], LAMBDA e : e # "Initialized")

\* The raft runtime hands over committed entries in log order: the next
\* entry follows last_applied.
NextIndex(s) ==
    IF IsNone(last_applied_ref(s)) THEN 1 ELSE Unwrap(last_applied_ref(s)).index + 1

Last(op, entry, reply, events, panic) ==
    [op |-> op, entry |-> entry, reply |-> reply, events |-> events, panic |-> panic]

Init ==
    /\ sm = SM0
    /\ view = None
    /\ importing = None
    /\ arcs = 0
    /\ peer = None
    /\ last = Last("init", None, ReplyNone, <<>>, FALSE)
    /\ subscriber = None
    /\ importer = None
    /\ disk = Disk0
    /\ ondisk = None
    /\ raft_store = RaftStore0

\* The state after an entry was applied with outcome r.
ApplyDone(entry, r) ==
    /\ sm' = r.sm
    /\ last' = Last("apply", Some(entry), r.reply, r.changes, r.panic)

\* SMV003::apply_entries with one entry.
ApplyEntry(entry) ==
    /\ ~last.panic
    /\ ApplyDone(entry, apply(sm, entry))
    /\ UNCHANGED <<view, importing, arcs, peer, subscriber, importer, disk, ondisk, raft_store>>

Apply(payload) ==
    /\ NextIndex(sm) <= MaxIndex
    /\ ApplyEntry(Entry(LogId(1, NextIndex(sm)), payload))

\* SMV003::full_snapshot_view
FullSnapshotView ==
    /\ ~last.panic
    /\ arcs < MaxFreeze
    /\ arcs' = arcs + 1
    /\ sm' = freeze_writable(sm, arcs + 1)
    /\ view' = Some(SnapshotView(sm'.frozen))
    /\ last' = Last("full_snapshot_view", None, ReplyNone, <<>>, FALSE)
    /\ UNCHANGED <<importing, peer, subscriber, importer, disk, ondisk, raft_store>>

\* SnapshotViewV003::compact_mem_levels on the view held.
CompactMemLevels ==
    /\ ~last.panic
    /\ IsSome(view)
    /\ view' = Some(compact_mem_levels(Unwrap(view)))
    /\ last' = Last("compact_mem_levels", None, ReplyNone, <<>>, FALSE)
    /\ UNCHANGED <<sm, importing, arcs, peer, subscriber, importer, disk, ondisk, raft_store>>

\* SMV003::replace_base with the view held; the assertion aborts the process.
ReplaceBase ==
    /\ ~last.panic
    /\ IsSome(view)
    /\ IF replace_base_ok(sm, Unwrap(view))
       THEN /\ sm' = replace_base(sm, Unwrap(view))
            /\ last' = Last("replace_base", None, ReplyNone, <<>>, FALSE)
       ELSE /\ sm' = sm
            /\ last' = Last("replace_base", None, ReplyNone, <<>>, TRUE)
    /\ UNCHANGED <<view, importing, arcs, peer, subscriber, importer, disk, ondisk, raft_store>>

\* What a leader that is one entry ahead of this replica has applied.
LeaderPayloads ==
    { PayloadNormal(Some(1000), CmdUpsertKV(UpsertKV(KeyB, MatchAny, OpUpdate(V2), Expire1s))),
      PayloadMembership(2) }

\* The snapshot of a state machine: freeze, view, export.
SnapshotOf(s) == export(SnapshotView(freeze_writable(s, 0).frozen))

\* A snapshot built by hand with metactl: nodes only, no last_applied.
MetactlSnapshot ==
    <<EntryDataHeader, EntryLastMembership(Membership0),
      EntrySequences("generic-kv", 0), EntryNodes(2, Node2)>>

\* The snapshots that may arrive: the one exported from the view held (the
\* state machine may have moved on since), one of a leader that is one entry
\* ahead, and a hand-built one.
SnapshotsArriving ==
    (IF IsSome(view) THEN {export(Unwrap(view))} ELSE {})
      \cup (IF NextIndex(sm) <= MaxIndex
            THEN {SnapshotOf(apply(sm, Entry(LogId(1, NextIndex(sm)), p)).sm)
                  : p \in LeaderPayloads}
            ELSE {})
      \cup {MetactlSnapshot}

ImportDone(imp) ==
    IF commit_ok(imp)
    THEN /\ importing' = Some(commit(imp))
         /\ last' = Last("import", None, ReplyNone, <<>>, FALSE)
    ELSE /\ importing' = None
         /\ last' = Last("import", None, ReplyNone, <<>>, TRUE)

\* SMV003::install_snapshot, first part: the stream is imported and committed
\* before the write lock is taken.
ImportSnapshot(data) ==
    /\ ~last.panic
    /\ IsNone(importing)
    /\ ImportDone(ImportAll(Importer0, data))
    /\ UNCHANGED <<sm, view, arcs, peer, subscriber, importer, disk, ondisk, raft_store>>

InstallDone(r) ==
    /\ sm' = r.sm
    /\ last' = Last("install_snapshot", None, ReplyNone, <<>>, r.panic)

\* SMV003::install_snapshot, second part, under the write lock.
InstallSnapshot ==
    /\ ~last.panic
    /\ IsSome(importing)
    /\ InstallDone(install_locked(sm, Unwrap(importing)))
    /\ importing' = None
    /\ UNCHANGED <<view, arcs, peer, subscriber, importer, disk, ondisk, raft_store>>

\* The entries applied while snapshots are installed.
InstallPayloads ==
    { PayloadBlank,
      PayloadNormal(None, CmdAddNode(1, Node1, FALSE)),
      PayloadNormal(None, CmdUpsertKV(UpsertKV(KeyA, MatchAny, OpUpdate(V1), None))),
      PayloadNormal(Some(1000), CmdUpsertKV(UpsertKV(KeyB, MatchAny, OpUpdate(V1), Expire2s))),
      PayloadNormal(Some(2000), CmdUpsertKV(UpsertKV(KeyA, MatchAny, OpDelete, None))) }

Next ==
    \/ \E p \in Payloads : Apply(p)
    \/ FullSnapshotView
    \/ CompactMemLevels
    \/ ReplaceBase

Spec == Init /\ [][Next]_vars

\* Applying entries while snapshots are imported and installed: the import
\* runs without the lock, so entries are applied between it and the install.
NextInstall ==
    \/ \E p \in InstallPayloads : Apply(p)
    \/ FullSnapshotView
    \/ \E data \in SnapshotsArriving : ImportSnapshot(data)
    \/ InstallSnapshot

SpecInstall == Init /\ [][NextInstall]_vars

(***************************************************************************)
(* What a step of the state machine was.                                   *)
(***************************************************************************)
\* The step applied an entry and did not abort.
Applies == last'.op = "apply" /\ ~last'.panic
AppliedEntry == Unwrap(last'.entry)

\* The step applied an UpsertKV command.
AppliesUpsert ==
    /\ Applies
    /\ AppliedEntry.payload.t = "Normal"
    /\ AppliedEntry.payload.cmd.cmd = "UpsertKV"
AppliedUpsert == AppliedEntry.payload.cmd.upsert_kv

\* The step applied an UpsertKV that wrote: its reply has prev # result.
AppliesWrite == AppliesUpsert /\ last'.reply.prev # last'.reply.result

UpdateA == PayloadNormal(None, CmdUpsertKV(UpsertKV(KeyA, MatchAny, OpUpdate(V1), None)))
DeleteA == PayloadNormal(None, CmdUpsertKV(UpsertKV(KeyA, MatchAny, OpDelete, None)))

\* An empty state machine that has applied Update("a", "v1").
AfterUpdateA == apply(SM0, Entry(LogId(1, 1), UpdateA)).sm


\* C1 (as the code behaves): an UpsertKV that writes a Normal record (Update,
\* or AsIs on a live key) raises the seq counter by one; an UpsertKV Delete of
\* a live key writes a tombstone stamped with the current seq and leaves the
\* counter as it is. After Update("a", "v1") and then Delete("a") on an empty
\* state machine, get_kv("a") is None and the seq counter is 1.
C1_DeleteTakesNoSeq ==
    [][AppliesWrite =>
         /\ curr_seq(sm') =
              curr_seq(sm) + (IF AppliedUpsert.value.t = "Delete" THEN 0 ELSE 1)
         /\ (sm = AfterUpdateA /\ AppliedUpsert = UpsertDelete(KeyA)) =>
              (get_kv(sm', KeyA) = None /\ curr_seq(sm') = 1)]_vars

\* C1: Delete("a") was applied right after Update("a", "v1"): it removed the
\* record of seq 1 and the counter is still 1.
C1_Witness ==
    /\ last.op = "apply" /\ ~last.panic
    /\ Unwrap(last.entry) = Entry(LogId(1, 2), DeleteA)
    /\ last.reply = [t |-> "KV", prev |-> Some(SeqV(1, None, V1)), result |-> None]
    /\ get_kv(sm, KeyA) = None
    /\ curr_seq(sm) = 1
    /\ sm.writable.kv[KeyA] = TombStone(1)

\* C1 as the specification states it: every successful kv write, the delete
\* of a live key included, strictly increases the seq counter, which is 2
\* after Update("a", "v1") and Delete("a").
C1_EveryWriteTakesSeq ==
    [][AppliesWrite =>
         /\ curr_seq(sm') > curr_seq(sm)
         /\ (sm = AfterUpdateA /\ AppliedUpsert = UpsertDelete(KeyA)) =>
              (get_kv(sm', KeyA) = None /\ curr_seq(sm') = 2)]_vars

(***************************************************************************)
(* The records of the levels.                                              *)
(***************************************************************************)
\* The (key, record) pairs of the kv maps of a stack of levels.
KVRecords(levels) ==
    UNION {{<<k, levels[i].kv[k]>> : k \in DOMAIN levels[i].kv} : i \in 1..Len(levels)}

\* The (level, key) places of the Normal kv records of a stack of levels.
NormalPlaces(levels) ==
    UNION {{<<i, k>> : k \in {x \in DOMAIN levels[i].kv : ~levels[i].kv[x].tomb}}
           : i \in 1..Len(levels)}

\* C2: over apply, full_snapshot_view, compact_mem_levels and replace_base the
\* seq counter never decreases; every Normal kv record a step writes carries a
\* seq greater than the counter before the step and at most the counter after
\* it; no two Normal kv records of the levels carry the same seq.
C2_SeqNeverReused ==
    [][/\ curr_seq(sm') >= curr_seq(sm)
       /\ \A r \in KVRecords(AllLevels(sm')) \ KVRecords(AllLevels(sm)) :
            ~r[2].tomb => r[2].internal_seq > curr_seq(sm)
       /\ \A r \in KVRecords(AllLevels(sm')) : r[2].internal_seq <= curr_seq(sm')
       /\ \A p, q \in NormalPlaces(AllLevels(sm')) :
            AllLevels(sm')[p[1]].kv[p[2]].internal_seq
              = AllLevels(sm')[q[1]].kv[q[2]].internal_seq => p = q]_vars

\* C2: a record was written on top of a base that was frozen twice, compacted
\* and put back with replace_base: it took the seq after those of the base.
C2_Witness ==
    /\ last.op = "apply" /\ ~last.panic
    /\ Len(sm.frozen) = 1 /\ sm.frozen[1].id < 0
    /\ Cardinality(NormalPlaces(ArcLevels(sm.frozen))) = 2
    /\ \E k \in DOMAIN sm.writable.kv :
         /\ ~sm.writable.kv[k].tomb
         /\ sm.writable.kv[k].internal_seq = 3
    /\ curr_seq(sm) = 3

\* The live kv records of the merged view of a stack of levels, as a map.
LiveKV(levels) == MapOfRange(LiveOf(RangeKV(levels)))
\* The live expiration records of the merged view of a stack of levels.
LiveExpire(levels) == MapOfRange(LiveOf(RangeExpire(levels)))

\* Every live key of kv with an expiry has its index entry
\* (expire_at_ms, seq) -> key in expire, and every entry of expire points to
\* a live key of kv with that expiry and that seq.
IndexMatches(kv, expire) ==
    /\ \A k \in DOMAIN kv :
         IsSome(MarkedExpireAtMs(kv[k])) =>
           /\ ExpireKey(Unwrap(MarkedExpireAtMs(kv[k])), kv[k].internal_seq) \in DOMAIN expire
           /\ expire[ExpireKey(Unwrap(MarkedExpireAtMs(kv[k])), kv[k].internal_seq)].value = k
    /\ \A ek \in DOMAIN expire :
         /\ expire[ek].value \in DOMAIN kv
         /\ MarkedExpireAtMs(kv[expire[ek].value]) = Some(ek[1])
         /\ kv[expire[ek].value].internal_seq = ek[2]

\* The two indexes of the merged view of a stack of levels are consistent.
ExpireIndexConsistent(levels) == IndexMatches(LiveKV(levels), LiveExpire(levels))

\* C3: after any applied entries, interleaved with freezes, compaction and
\* replace_base, the merged view of the state machine, and the levels of the
\* snapshot view before and after compaction, keep the primary index and the
\* expiration index consistent, one entry per live key with an expiry.
C3_ExpireIndexConsistent ==
    /\ ExpireIndexConsistent(AllLevels(sm))
    /\ IsSome(view) => ExpireIndexConsistent(ArcLevels(Unwrap(view).compacted))

\* C3: a key with an expiry was replaced with another expiry on a level above
\* a frozen one: the old index entry is shadowed by a tombstone, the new one
\* is live.
C3_Witness ==
    /\ last.op = "apply" /\ ~last.panic
    /\ Len(sm.frozen) >= 1
    /\ \E ek \in DOMAIN sm.writable.expire : sm.writable.expire[ek].tomb
    /\ \E ek \in DOMAIN sm.writable.expire : ~sm.writable.expire[ek].tomb
    /\ \E e \in DOMAIN sm.frozen[1].d.expire : ~sm.frozen[1].d.expire[e].tomb
    /\ Cardinality(DOMAIN LiveExpire(AllLevels(sm))) >= 1

\* The keys whose newest record, over a stack of levels, is a tombstone.
Shadowed(levels) ==
    {k \in Keys : \E i \in 1..Len(levels) :
        /\ k \in DOMAIN levels[i].kv
        /\ levels[i].kv[k].tomb
        /\ \A j \in (i + 1)..Len(levels) : k \notin DOMAIN levels[j].kv}

\* The keys of the GenericKV entries of an exported snapshot.
ExportedKeys(data) == {data[i].key : i \in {j \in 1..Len(data) : data[j].t = "GenericKV"}}
ListedKeys(kvs) == {kvs[i][1] : i \in 1..Len(kvs)}

\* C4: a key whose newest record, in the writable or a frozen level, is a
\* tombstone is not found by get_kv, not listed by prefix_list_kv and not
\* exported by the snapshot view, whatever older levels hold for it.
C4_TombstoneShadows ==
    /\ \A k \in Shadowed(AllLevels(sm)) :
         /\ get_kv(sm, k) = None
         /\ \A p \in {<<>>} \cup Keys : k \notin ListedKeys(prefix_list_kv(sm, p))
    /\ IsSome(view) =>
         \A k \in Shadowed(ArcLevels(Unwrap(view).compacted)) :
            k \notin ExportedKeys(export(Unwrap(view)))

\* C4: a tombstone in the writable level shadows a Normal record of a frozen
\* level, and a tombstone in the newest level of the view shadows a Normal
\* record of its older level.
C4_Witness ==
    /\ \E k \in Shadowed(AllLevels(sm)) :
         /\ k \in DOMAIN sm.writable.kv
         /\ \E i \in 1..Len(sm.frozen) :
              k \in DOMAIN sm.frozen[i].d.kv /\ ~sm.frozen[i].d.kv[k].tomb
    /\ IsSome(view)
    /\ Len(Unwrap(view).compacted) = 2
    /\ \E k \in Shadowed(ArcLevels(Unwrap(view).compacted)) :
         k \in DOMAIN Unwrap(view).compacted[1].d.kv
           /\ ~Unwrap(view).compacted[1].d.kv[k].tomb

\* The step ran the locked part of install_snapshot.
Installs == last'.op = "install_snapshot" /\ ~last'.panic

ExpiredAt(s, time_ms) ==
    {k \in Keys :
        /\ IsSome(get_kv(s, k))
        /\ IsSome(MetaExpireAtMs(Unwrap(get_kv(s, k)).meta))
        /\ Unwrap(MetaExpireAtMs(Unwrap(get_kv(s, k)).meta)) <= time_ms}

\* What a read of key finds once the records expired at time_ms are gone;
\* an entry without a time (time_ms = 0) sweeps nothing.
Observed(s, time_ms, key) ==
    IF time_ms # 0 /\ key \in ExpiredAt(s, time_ms) THEN None ELSE get_kv(s, key)

\* The time of the entry applied by the step.
AppliedTime == get_log_time(AppliedEntry)

\* The step applied a Transaction command.
AppliesTxn ==
    /\ Applies
    /\ AppliedEntry.payload.t = "Normal"
    /\ AppliedEntry.payload.cmd.cmd = "Transaction"
AppliedTxn == AppliedEntry.payload.cmd.txn

\* The conditions of a transaction hold for what the payload observes.
ConditionsObserved(s, time_ms, condition) ==
    \A i \in 1..Len(condition) :
        eval_condition_on(Observed(s, time_ms, condition[i].key), condition[i])

\* C7: when an entry with a nonzero time t is applied, every key that is live
\* with expire_at_ms <= t, equality included, is deleted by the sweep before
\* the payload runs: the change events of the sweep come first, an UpsertKV
\* on such a key replies prev = None, a transaction evaluates its conditions
\* with the key absent and a Get that is the first op of the branch finds
\* nothing.
C7_SweepBeforePayload ==
    [][(Applies /\ AppliedTime # 0) =>
         /\ \A k \in ExpiredAt(sm, AppliedTime) :
              \E i \in 1..Cardinality(ExpiredAt(sm, AppliedTime)) :
                 /\ i <= Len(last'.events)
                 /\ last'.events[i] = Change(k, get_kv(sm, k), None)
         /\ AppliesUpsert =>
              last'.reply.prev = Observed(sm, AppliedTime, AppliedUpsert.key)
         /\ AppliesTxn =>
              /\ last'.reply.success =
                   ConditionsObserved(sm, AppliedTime, AppliedTxn.condition)
              /\ \A k \in ExpiredAt(sm, AppliedTime) :
                   (/\ Len(last'.reply.responses) > 0
                    /\ last'.reply.responses[1].t = "Get"
                    /\ last'.reply.responses[1].key = k)
                     => last'.reply.responses[1].value = None]_vars

\* C7: "b", written with expire_at 1 s, was live when an UpsertKV of "b" with
\* time_ms = 1000 was applied: the sweep deleted it first (equality counts as
\* expired) and the upsert saw no previous value.
C7_Witness ==
    /\ last.op = "apply" /\ ~last.panic
    /\ Unwrap(last.entry).payload =
         PayloadNormal(Some(1000), CmdUpsertKV(UpsertKV(KeyB, MatchAny, OpUpdate(V1), Expire1s)))
    /\ Len(last.events) = 2
    /\ last.events[1] = Change(KeyB, Some(SeqV(1, Expire1s, V1)), None)
    /\ last.reply.prev = None
    /\ last.reply.result = Some(SeqV(2, Expire1s, V1))

\* MatchSeq as the claim states it: Exact(n) fails unless the seq is n,
\* GE(n) fails for a seq below n, Any never fails; an absent key has seq 0.
Mismatch(m, seq) ==
    \/ m.t = "Exact" /\ seq # m.n
    \/ m.t = "GE" /\ seq < m.n

\* The live records of the merged view without the keys of a set.
Without(map, gone) == [k \in DOMAIN map \ gone |-> map[k]]
SweptKeys == IF AppliedTime = 0 THEN {} ELSE ExpiredAt(sm, AppliedTime)
SweptIndex ==
    {ek \in DOMAIN LiveExpire(AllLevels(sm)) :
        LiveExpire(AllLevels(sm))[ek].value \in SweptKeys}

\* C9: an UpsertKV whose MatchSeq does not match the seq of the key, as the
\* payload observes it, replies (prev, prev) and changes nothing: the live
\* kv records and the expiration index are those the sweep of the entry
\* left, the seq counter is unchanged and the only change events are those
\* of the sweep.
C9_MismatchIsNoOp ==
    [][(AppliesUpsert
          /\ Mismatch(AppliedUpsert.seq, OptSeq(Observed(sm, AppliedTime, AppliedUpsert.key)))) =>
         /\ last'.reply.prev = Observed(sm, AppliedTime, AppliedUpsert.key)
         /\ last'.reply.result = last'.reply.prev
         /\ LiveKV(AllLevels(sm')) = Without(LiveKV(AllLevels(sm)), SweptKeys)
         /\ LiveExpire(AllLevels(sm')) = Without(LiveExpire(AllLevels(sm)), SweptIndex)
         /\ curr_seq(sm') = curr_seq(sm)
         /\ Len(last'.events) = Cardinality(SweptKeys)
         /\ \A i \in 1..Len(last'.events) : last'.events[i].key \in SweptKeys]_vars

\* C9: an Update of "a" with Exact(0) was applied while "a" was live: it
\* replied the live record twice and "a" is as it was.
C9_Witness ==
    /\ last.op = "apply" /\ ~last.panic
    /\ Unwrap(last.entry).payload.t = "Normal"
    /\ Unwrap(last.entry).payload.cmd =
         CmdUpsertKV(UpsertKV(KeyA, MatchExact(0), OpUpdate(V2), Expire1s))
    /\ IsSome(last.reply.prev)
    /\ last.reply.result = last.reply.prev
    /\ get_kv(sm, KeyA) = last.reply.prev
    /\ last.events = <<>>

(***************************************************************************)
(* Entries handed to apply in any order: the caller does not filter the    *)
(* entries that were applied already.                                      *)
(***************************************************************************)
\* Greatest seq at which an entry is still applied.
MaxSeq == 3

AnyLogPayloads ==
    { PayloadBlank,
      UpdateA,
      DeleteA,
      PayloadNormal(Some(1000), CmdUpsertKV(UpsertKV(KeyB, MatchAny, OpUpdate(V1), Expire2s))),
      PayloadNormal(Some(2000), CmdUpsertKV(UpsertKV(KeyA, MatchAny, OpUpdate(V2), None))) }

\* SMV003::apply_entries with one entry of any log id.
ApplyAt(index, payload) ==
    /\ curr_seq(sm) < MaxSeq
    /\ ApplyEntry(Entry(LogId(1, index), payload))

NextAnyLog == \E i \in 1..MaxIndex, p \in AnyLogPayloads : ApplyAt(i, p)

SpecAnyLog == Init /\ [][NextAnyLog]_vars

\* The log id of the entry applied by the step is not after last_applied.
AppliesOld ==
    /\ last'.op = "apply"
    /\ OptLogIdLE(Some(AppliedEntry.log_id), last_applied_ref(sm))

\* C6 (as the code behaves): apply does not compare the log id of the entry
\* with last_applied. An entry whose log id is less than or equal to
\* last_applied is applied like any other: apply does not abort, last_applied
\* becomes the log id of the entry, and the payload runs (an Update("a", "v1")
\* writes "a" with the next seq).
C6_ApplyDoesNotCheckLogId ==
    [][last'.op = "apply" =>
         /\ ~last'.panic
         /\ last_applied_ref(sm') = Some(AppliedEntry.log_id)
         /\ AppliedEntry.payload = UpdateA =>
              get_kv(sm', KeyA) = Some(SeqV(curr_seq(sm) + 1, None, V1))]_vars

\* C6: three entries were applied, the last one with log index 1: it wrote
\* the record of seq 3 and last_applied went back to index 1.
C6_Witness ==
    /\ last.op = "apply" /\ ~last.panic
    /\ Unwrap(last.entry) = Entry(LogId(1, 1), UpdateA)
    /\ last_applied_ref(sm) = Some(LogId(1, 1))
    /\ get_kv(sm, KeyA) = Some(SeqV(3, None, V1))
    /\ curr_seq(sm) = 3

\* C6 as the specification states it: an entry whose log id is less than or
\* equal to last_applied is rejected, so that it changes neither last_applied
\* nor the kv, expire, nodes or seq state.
C6_OldEntryRejected ==
    [][AppliesOld => sm' = sm]_vars

(***************************************************************************)
(* Transactions on "a" (x of the example) and "b".                         *)
(***************************************************************************)
\* Greatest raft log index that is applied when only transactions are.
MaxTxnIndex == 6

V3 == <<3>>

\* if x.seq == 5 then put x "B" else put x "C"
ExampleTxn ==
    TxnRequest(<<TxnCondition(KeyA, "Eq", Some(TargetSeq(5)))>>,
               <<TxnPut(KeyA, V2, None, FALSE)>>,
               <<TxnPut(KeyA, V3, None, FALSE)>>)

TxnPayloads ==
    { PayloadNormal(None, CmdTransaction(TxnRequest(
          <<>>, <<TxnPut(KeyA, V1, None, TRUE)>>, <<TxnDelete(KeyA, None, FALSE)>>))),
      PayloadNormal(None, CmdTransaction(ExampleTxn)),
      PayloadNormal(Some(1000), CmdTransaction(TxnRequest(
          <<TxnCondition(KeyB, "Gt", Some(TargetSeq(0)))>>,
          <<TxnGet(KeyB), TxnDelete(KeyA, None, TRUE)>>,
          <<TxnPut(KeyB, V1, Some(1), FALSE)>>))),
      PayloadNormal(None, CmdTransaction(TxnRequest(
          <<TxnCondition(KeyB, "Gt", Some(TargetSeq(0))),
            TxnCondition(KeyA, "Ge", Some(TargetValue(V2)))>>,
          <<TxnDeleteByPrefix(KeyA), TxnGet(KeyB)>>,
          <<TxnGet(KeyA)>>))) }

ApplyTxn(payload) ==
    /\ NextIndex(sm) <= MaxTxnIndex
    /\ ApplyEntry(Entry(LogId(1, NextIndex(sm)), payload))

NextTxn == \E p \in TxnPayloads : ApplyTxn(p)

SpecTxn == Init /\ [][NextTxn]_vars

\* The keys an op list may write.
WrittenBy(ops) ==
    {k \in Keys : \E i \in 1..Len(ops) :
        \/ ops[i].t \in {"Put", "Delete"} /\ ops[i].key = k
        \/ ops[i].t = "DeleteByPrefix" /\ StartsWith(k, ops[i].prefix)}

\* A response answers an op: same kind, same key or prefix.
Answers(resp, op) ==
    /\ resp.t = op.t
    /\ IF op.t = "DeleteByPrefix" THEN resp.prefix = op.prefix ELSE resp.key = op.key

\* C10: a transaction runs if_then exactly when every condition holds for
\* the state after the sweep of the entry and before any of its ops (an
\* empty list holds), and else_then otherwise; TxnReply.success says which,
\* the responses answer the ops of that branch one by one, and a key that
\* only the other branch writes is left as the sweep left it. With x at seq
\* 5, the condition x Eq Seq(5) succeeds and Put x "B" leaves x at seq 6.
C10_TxnBranch ==
    [][AppliesTxn =>
         /\ last'.reply.success
              = ConditionsObserved(sm, AppliedTime, AppliedTxn.condition)
         /\ Len(last'.reply.responses)
              = Len(Branch(AppliedTxn, last'.reply.success))
         /\ \A i \in 1..Len(last'.reply.responses) :
              Answers(last'.reply.responses[i],
                      Branch(AppliedTxn, last'.reply.success)[i])
         /\ \A k \in Keys \ WrittenBy(Branch(AppliedTxn, last'.reply.success)) :
              get_kv(sm', k) = Observed(sm, AppliedTime, k)
         /\ (/\ AppliedTxn = ExampleTxn
             /\ curr_seq(sm) = 5
             /\ IsSome(get_kv(sm, KeyA))
             /\ Unwrap(get_kv(sm, KeyA)).seq = 5
             /\ Unwrap(get_kv(sm, KeyA)).data = V1) =>
              /\ last'.reply.success
              /\ Unwrap(get_kv(sm', KeyA)).seq = 6
              /\ Unwrap(get_kv(sm', KeyA)).data = V2]_vars

\* C10: the example transaction was applied with x at seq 5: it succeeded
\* and x holds "B" at seq 6.
C10_Witness ==
    /\ last.op = "apply" /\ ~last.panic
    /\ Unwrap(last.entry).payload = PayloadNormal(None, CmdTransaction(ExampleTxn))
    /\ last.reply.success
    /\ last.events =
         <<Change(KeyA, Some(SeqV(5, Some(KVMeta(None)), V1)),
                  Some(SeqV(6, Some(KVMeta(None)), V2)))>>
    /\ get_kv(sm, KeyA) = Some(SeqV(6, Some(KVMeta(None)), V2))

(***************************************************************************)
(* Two replicas: `sm` applies the log from the start; `peer` starts empty, *)
(* installs a snapshot that `sm` builds after some entry, and from then on *)
(* both apply the same entries.                                            *)
(***************************************************************************)
ReplicaPayloads ==
    { PayloadNormal(None, CmdAddNode(1, Node1, FALSE)),
      PayloadMembership(1) }
      \cup {PayloadNormal(t, c) : t \in LogTimes,
            c \in { CmdUpsertKV(UpsertKV(KeyA, MatchAny, OpUpdate(V1), None)),
                    CmdUpsertKV(UpsertKV(KeyB, MatchAny, OpUpdate(V1), Expire1s)),
                    CmdUpsertKV(UpsertKV(KeyB, MatchExact(0), OpUpdate(V2), Expire2s)) }}

\* The first replica applies an entry before the snapshot is built.
ApplyFirst(payload) == IsNone(peer) /\ Apply(payload)

\* install_snapshot on an empty state machine.
Installed(data) == install_locked(SM0, commit(ImportAll(Importer0, data))).sm

\* The first replica builds a snapshot (full_snapshot_view, export) and the
\* second replica installs it.
InstallOnPeer ==
    /\ ~last.panic
    /\ IsNone(peer)
    /\ IsSome(last_applied_ref(sm))
    /\ arcs' = arcs + 1
    /\ sm' = freeze_writable(sm, arcs + 1)
    /\ view' = Some(SnapshotView(sm'.frozen))
    /\ peer' = Some(Installed(export(Unwrap(view'))))
    /\ last' = Last("install_on_peer", None, ReplyNone, <<>>, FALSE)
    /\ UNCHANGED <<importing, subscriber, importer, disk, ondisk, raft_store>>

BothDone(entry, r, q) ==
    /\ sm' = r.sm
    /\ peer' = Some(q.sm)
    /\ last' = Last("apply_both", Some(entry), <<r.reply, q.reply>>,
                    <<r.changes, q.changes>>, r.panic \/ q.panic)

\* Both replicas apply the same entry.
ApplyBothEntry(entry) ==
    /\ ~last.panic
    /\ IsSome(peer)
    /\ BothDone(entry, apply(sm, entry), apply(Unwrap(peer), entry))
    /\ UNCHANGED <<view, importing, arcs, subscriber, importer, disk, ondisk, raft_store>>

ApplyBoth(payload) ==
    /\ NextIndex(sm) <= MaxIndex
    /\ ApplyBothEntry(Entry(LogId(1, NextIndex(sm)), payload))

NextReplica ==
    \/ \E p \in ReplicaPayloads : ApplyFirst(p)
    \/ InstallOnPeer
    \/ \E p \in ReplicaPayloads : ApplyBoth(p)

SpecReplica == Init /\ [][NextReplica]_vars

\* C8: a replica that applied entries 1..n and a replica that installed a
\* snapshot exported after entry k and applied entries k+1..n hold the same
\* live kv records, the same expiration index, the same nodes and the same
\* seq counter, and answered every entry after k with the same reply.
C8_ReplicasAgree ==
    IsSome(peer) =>
        /\ LiveKV(AllLevels(sm)) = LiveKV(AllLevels(Unwrap(peer)))
        /\ LiveExpire(AllLevels(sm)) = LiveExpire(AllLevels(Unwrap(peer)))
        /\ nodes_ref(sm) = nodes_ref(Unwrap(peer))
        /\ curr_seq(sm) = curr_seq(Unwrap(peer))
        /\ last.op = "apply_both" => last.reply[1] = last.reply[2]

(***************************************************************************)
(* Transaction conditions on keys that are absent: never written, deleted, *)
(* or live in a frozen level under a tombstone.                            *)
(***************************************************************************)
\* The six comparators, and a code that is none of them.
Comparators == {"Eq", "Ne", "Lt", "Le", "Gt", "Ge"}
UnknownComparator == "Unknown"

CondTargets ==
    {None, Some(TargetSeq(0)), Some(TargetSeq(1)), Some(TargetValue(<<>>)),
     Some(TargetValue(V1))}

\* A transaction of one condition: it reads the key when the condition holds.
CondTxn(cond) == TxnRequest(<<cond>>, <<TxnGet(cond.key)>>, <<>>)

CondPayloads ==
    { UpdateA, DeleteA,
      PayloadNormal(None, CmdUpsertKV(UpsertKV(KeyB, MatchAny, OpUpdate(<<>>), None))) }
      \cup {PayloadNormal(None, CmdTransaction(CondTxn(TxnCondition(k, op, target)))) :
              k \in {KeyA, KeyB}, op \in Comparators \cup {UnknownComparator},
              target \in CondTargets}

NextCond ==
    \/ \E p \in CondPayloads : Apply(p)
    \/ FullSnapshotView

SpecCond == Init /\ [][NextCond]_vars

\* No level holds a record of the key.
NeverWritten(levels, key) == \A i \in 1..Len(levels) : key \notin DOMAIN levels[i].kv

\* The key was never written, or its newest record is a tombstone.
Absent(s, key) == NeverWritten(AllLevels(s), key) \/ key \in Shadowed(AllLevels(s))

\* What a condition on an absent key must evaluate to: the seq reads as 0,
\* there is no value to compare.
AbsentExpected(cond) ==
    IF IsNone(cond.target) THEN FALSE
    ELSE IF Unwrap(cond.target).t = "Value" THEN FALSE
    ELSE CASE cond.expected = "Eq" -> Unwrap(cond.target).n = 0
           [] cond.expected = "Ne" -> Unwrap(cond.target).n # 0
           [] cond.expected = "Lt" -> Unwrap(cond.target).n > 0
           [] cond.expected = "Le" -> TRUE
           [] cond.expected = "Gt" -> FALSE
           [] cond.expected = "Ge" -> Unwrap(cond.target).n = 0
           [] OTHER -> FALSE

\* C11: a transaction condition on an absent key (never written, deleted, or
\* shadowed by a tombstone) compares seq 0 for a Seq target and is false for
\* a Value target under each of the six comparators; a condition with no
\* target, or with an unknown comparator code, is false whatever the key holds.
C11_AbsentKeyCondition ==
    [][(AppliesTxn /\ Len(AppliedTxn.condition) = 1) =>
         /\ Absent(sm, AppliedTxn.condition[1].key) =>
              last'.reply.success = AbsentExpected(AppliedTxn.condition[1])
         /\ (\/ IsNone(AppliedTxn.condition[1].target)
             \/ AppliedTxn.condition[1].expected \notin Comparators) =>
              ~last'.reply.success]_vars

\* C11: "a" is live in a frozen level under a tombstone of the writable
\* level; the condition a Ne Value("v1") was evaluated and is false.
C11_Witness ==
    /\ last.op = "apply" /\ ~last.panic
    /\ Unwrap(last.entry).payload =
         PayloadNormal(None, CmdTransaction(CondTxn(
             TxnCondition(KeyA, "Ne", Some(TargetValue(V1))))))
    /\ KeyA \in Shadowed(AllLevels(sm))
    /\ Len(sm.frozen) = 1
    /\ KeyA \in DOMAIN sm.frozen[1].d.kv /\ ~sm.frozen[1].d.kv[KeyA].tomb
    /\ ~last.reply.success
    /\ last.reply.responses = <<>>

(***************************************************************************)
(* DeleteByPrefix on "a", "ab", "b", some with an expiry, some deleted,    *)
(* over frozen levels.                                                     *)
(***************************************************************************)
\* a/1, a/2 and b/1 of the example are "a", "ab" and "b": put in one entry.
SeedTxn ==
    TxnRequest(<<>>,
               <<TxnPut(KeyA, V1, None, FALSE), TxnPut(KeyAB, V1, Some(2), FALSE),
                 TxnPut(KeyB, V1, Some(1), FALSE)>>,
               <<>>)

Prefixes == {<<>>, KeyA, KeyAB, KeyB, <<3>>}

DeleteByPrefixTxn(prefix) == TxnRequest(<<>>, <<TxnDeleteByPrefix(prefix)>>, <<>>)

\* A Put of "ab" and then DeleteByPrefix("a") in one transaction.
PutThenDeleteTxn ==
    TxnRequest(<<>>, <<TxnPut(KeyAB, V2, None, FALSE), TxnDeleteByPrefix(KeyA)>>, <<>>)

PrefixPayloads ==
    { PayloadNormal(None, CmdTransaction(SeedTxn)),
      DeleteA,
      PayloadNormal(None, CmdUpsertKV(UpsertKV(KeyB, MatchAny, OpUpdate(V2), None))),
      PayloadNormal(None, CmdTransaction(PutThenDeleteTxn)) }
      \cup {PayloadNormal(t, CmdTransaction(DeleteByPrefixTxn(p))) :
              t \in {None, Some(1000)}, p \in Prefixes}

NextPrefix ==
    \/ \E p \in PrefixPayloads : Apply(p)
    \/ FullSnapshotView

SpecPrefix == Init /\ [][NextPrefix]_vars

\* The ops the transaction of the step ran.
AppliedOps == Branch(AppliedTxn, last'.reply.success)

\* The step applied a transaction whose last op is a DeleteByPrefix, alone or
\* after one Put.
AppliesDeleteByPrefix ==
    /\ AppliesTxn
    /\ Len(AppliedOps) \in {1, 2}
    /\ AppliedOps[Len(AppliedOps)].t = "DeleteByPrefix"
    /\ Len(AppliedOps) = 2 => AppliedOps[1].t = "Put"
AppliedPrefix == AppliedOps[Len(AppliedOps)].prefix

\* The keys the Put before the DeleteByPrefix wrote.
PutBefore == IF Len(AppliedOps) = 2 THEN {AppliedOps[1].key} ELSE {}

\* The keys that are live when the DeleteByPrefix runs: after the sweep of
\* the entry and the op before it.
LiveAtOp == {k \in Keys : k \in PutBefore \/ IsSome(Observed(sm, AppliedTime, k))}

\* The keys the DeleteByPrefix has to delete.
ToDelete == {k \in LiveAtOp : StartsWith(k, AppliedPrefix)}

\* The expiration entries of a stack of levels that point to none of a set of keys.
ExpireNotOf(levels, keys) ==
    {ek \in DOMAIN LiveExpire(levels) : LiveExpire(levels)[ek].value \notin keys}

\* C12: a DeleteByPrefix{prefix} op deletes exactly the keys that are live
\* and start with prefix when the op runs (after the sweep of the entry and
\* the ops before it), leaves every other key as it was, removes the
\* expiration entries of the deleted keys and no others, and responds with
\* the number of keys deleted; with the empty prefix no key is left.
C12_DeleteByPrefix ==
    [][AppliesDeleteByPrefix =>
         /\ \A k \in ToDelete : get_kv(sm', k) = None
         /\ \A k \in Keys \ (ToDelete \cup PutBefore) :
              get_kv(sm', k) = Observed(sm, AppliedTime, k)
         /\ \A k \in PutBefore \ ToDelete :
              IsSome(get_kv(sm', k)) /\ Unwrap(get_kv(sm', k)).data = AppliedOps[1].value
         /\ ExpireNotOf(AllLevels(sm'), PutBefore)
              = ExpireNotOf(AllLevels(sm), ToDelete \cup SweptKeys \cup PutBefore)
         /\ last'.reply.responses[Len(AppliedOps)]
              = [t |-> "DeleteByPrefix", prefix |-> AppliedPrefix,
                 count |-> Cardinality(ToDelete)]
         /\ AppliedPrefix = <<>> => \A k \in Keys : get_kv(sm', k) = None]_vars

\* C12: DeleteByPrefix("a") ran on a frozen level that holds "a", "ab" (with
\* an expiry) and "b": it answered 2, "b" and its expiration entry are left.
C12_Witness ==
    /\ last.op = "apply" /\ ~last.panic
    /\ Unwrap(last.entry).payload = PayloadNormal(None, CmdTransaction(DeleteByPrefixTxn(KeyA)))
    /\ last.reply.responses = <<[t |-> "DeleteByPrefix", prefix |-> KeyA, count |-> 2]>>
    /\ Len(sm.frozen) = 1
    /\ DOMAIN LiveKV(ArcLevels(sm.frozen)) = Keys
    /\ DOMAIN LiveKV(AllLevels(sm)) = {KeyB}
    /\ DOMAIN LiveExpire(AllLevels(sm)) = {ExpireKey(1000, 3)}

\* The change events of the step that the payload queued: those after the
\* events of the sweep.
PayloadEvents ==
    SubSeq(last'.events, Cardinality(SweptKeys) + 1, Len(last'.events))

\* One deletion event for each key of a sequence of keys.
DeletionEvents(keys) ==
    [i \in 1..Len(keys) |-> Change(keys[i], Observed(sm, AppliedTime, keys[i]), None)]

\* C13: a DeleteByPrefix op emits exactly one change event per deleted key,
\* in ascending key order: on {a, ab, b} (a/1, a/2, b/1 of the example) a
\* transaction with if_then [DeleteByPrefix("a")] delivers exactly two change
\* events, for "a" and then for "ab".
C13_OneEventPerDeletedKey ==
    [][(AppliesDeleteByPrefix /\ Len(AppliedOps) = 1) =>
         PayloadEvents = DeletionEvents(SortedKeys(ToDelete))]_vars

(***************************************************************************)
(* The change events of upserts and transactions on "a": writes, deletes,  *)
(* meta updates, mismatches, records that expire at once.                  *)
(***************************************************************************)
ChangeCmds ==
    { CmdUpsertKV(UpsertKV(KeyA, MatchAny, OpUpdate(V1), None)),
      CmdUpsertKV(UpsertKV(KeyA, MatchAny, OpUpdate(V1), Expire1s)),
      CmdUpsertKV(UpsertKV(KeyA, MatchAny, OpDelete, None)),
      CmdUpsertKV(UpsertKV(KeyA, MatchAny, OpAsIs, Expire2s)),
      CmdUpsertKV(UpsertKV(KeyA, MatchExact(0), OpUpdate(V2), None)),
      CmdUpsertKV(UpsertKV(KeyA, MatchGE(2), OpDelete, None)),
      CmdTransaction(TxnRequest(
          <<>>, <<TxnPut(KeyA, V2, None, FALSE), TxnDelete(KeyA, None, FALSE)>>, <<>>)),
      CmdTransaction(DeleteByPrefixTxn(KeyA)) }

ChangePayloads == {PayloadNormal(t, c) : t \in {None, Some(2000)}, c \in ChangeCmds}

NextChange ==
    \/ \E p \in ChangePayloads : Apply(p)
    \/ FullSnapshotView

SpecChange == Init /\ [][NextChange]_vars

\* The change events of the step for one key.
EventsOf(key) == SelectSeq(last'.events, LAMBDA e : e.key = key)

\* The upsert of the step has nothing to do: its MatchSeq fails, or it is a
\* Delete or an AsIs of a key that is absent when the payload runs.
NothingToDo ==
    \/ Mismatch(AppliedUpsert.seq, OptSeq(Observed(sm, AppliedTime, AppliedUpsert.key)))
    \/ /\ AppliedUpsert.value.t \in {"Delete", "AsIs"}
       /\ IsNone(Observed(sm, AppliedTime, AppliedUpsert.key))

\* C14: every change event delivered has prev # new. An UpsertKV whose
\* result equals the previous value (MatchSeq mismatch, Delete or AsIs of an
\* absent key) queues no event, any other queues the event (key, prev,
\* result) of its reply. A key whose visible value an entry has changed has
\* events in the batch: the first carries the value before the entry, the
\* last the value after it.
C14_EventsCarryChanges ==
    [][Applies =>
         /\ \A i \in 1..Len(last'.events) : last'.events[i].prev # last'.events[i].result
         /\ \A k \in Keys :
              get_kv(sm', k) # get_kv(sm, k) =>
                /\ Len(EventsOf(k)) > 0
                /\ EventsOf(k)[1].prev = get_kv(sm, k)
                /\ EventsOf(k)[Len(EventsOf(k))].result = get_kv(sm', k)
         /\ AppliesUpsert =>
              /\ PayloadEvents =
                   (IF last'.reply.prev = last'.reply.result THEN <<>>
                    ELSE <<Change(AppliedUpsert.key, last'.reply.prev, last'.reply.result)>>)
              /\ NothingToDo =>
                   (last'.reply.prev = last'.reply.result /\ PayloadEvents = <<>>)]_vars

\* C14: an AsIs of "a" was applied after "a" was deleted over a frozen level
\* that holds it: the reply is (None, None) and no event was queued.
C14_Witness ==
    /\ last.op = "apply" /\ ~last.panic
    /\ Unwrap(last.entry).payload =
         PayloadNormal(None, CmdUpsertKV(UpsertKV(KeyA, MatchAny, OpAsIs, Expire2s)))
    /\ KeyA \in Shadowed(AllLevels(sm))
    /\ Len(sm.frozen) = 1 /\ KeyA \in DOMAIN LiveKV(ArcLevels(sm.frozen))
    /\ last.reply = [t |-> "KV", prev |-> None, result |-> None]
    /\ last.events = <<>>

(***************************************************************************)
(* Batches of entries applied with and without a subscriber.               *)
(***************************************************************************)
\* SMV003::set_subscriber
SetSubscriber ==
    /\ ~last.panic
    /\ IsNone(subscriber)
    /\ subscriber' = Some(<<>>)
    /\ last' = Last("set_subscriber", None, ReplyNone, <<>>, FALSE)
    /\ UNCHANGED <<sm, view, importing, arcs, peer, importer, disk, ondisk, raft_store>>

\* Put "b" again and delete what starts with "a", in one transaction.
PutAndDeleteByPrefixTxn ==
    TxnRequest(<<>>, <<TxnPut(KeyB, V2, None, FALSE), TxnDeleteByPrefix(KeyA)>>, <<>>)

SubscriberPayloads ==
    { PayloadBlank,
      PayloadNormal(None, CmdTransaction(SeedTxn)),
      PayloadNormal(Some(1000), CmdUpsertKV(UpsertKV(KeyA, MatchAny, OpUpdate(V2), None))),
      PayloadNormal(Some(2000), CmdTransaction(PutAndDeleteByPrefixTxn)) }

\* The batches handed to apply_entries: one entry or two.
Batches ==
    {<<p>> : p \in SubscriberPayloads}
      \cup {<<p, q>> : p \in SubscriberPayloads, q \in SubscriberPayloads}

\* The entries of a batch: they follow last_applied in log order.
EntriesOf(s, batch) ==
    [i \in 1..Len(batch) |-> Entry(LogId(1, NextIndex(s) + i - 1), batch[i])]

EntriesDone(entries, r) ==
    /\ sm' = r.sm
    /\ subscriber' = r.subscriber
    /\ last' = Last("apply_entries", Some(entries), r.replies, r.changes, r.panic)

\* SMV003::apply_entries with a batch of entries.
ApplyEntries(batch) ==
    /\ ~last.panic
    /\ NextIndex(sm) + Len(batch) - 1 <= MaxIndex
    /\ EntriesDone(EntriesOf(sm, batch), apply_entries(sm, subscriber, EntriesOf(sm, batch)))
    /\ UNCHANGED <<view, importing, arcs, peer, importer, disk, ondisk, raft_store>>

NextSubscriber ==
    \/ SetSubscriber
    \/ \E batch \in Batches : ApplyEntries(batch)
    \/ FullSnapshotView

SpecSubscriber == Init /\ [][NextSubscriber]_vars

\* The step applied a batch of entries with a subscriber set.
AppliesBatch == last'.op = "apply_entries" /\ ~last'.panic /\ IsSome(subscriber)
AppliedBatch == Unwrap(last'.entry)

\* The state machine before entry n of the batch of the step.
StateBefore(n) == IF n = 1 THEN sm ELSE apply(sm, AppliedBatch[1]).sm

\* The events the subscriber has received for a log id, in the order received.
BatchOf(sub, log_id) ==
    LET ds == SelectSeq(Unwrap(sub), LAMBDA d : d.log_id = log_id)
    IN [i \in 1..Len(ds) |-> ds[i].event]

\* The events of the sweep of a state machine at a log time: the live
\* expiration records that have expired, in ExpireKey order.
SweepEvents(s, time_ms) ==
    LET live == LiveExpire(AllLevels(s))
        eks == SortedExpireKeys({ek \in DOMAIN live : time_ms # 0 /\ ek[1] <= time_ms})
    IN [i \in 1..Len(eks) |-> Change(live[eks[i]].value, get_kv(s, live[eks[i]].value), None)]

\* The ops of the payload of an entry that write; an UpsertKV is one op.
WritingOps(payload, reply) ==
    IF payload.t # "Normal" THEN <<>>
    ELSE IF payload.cmd.cmd = "UpsertKV"
    THEN <<TxnPut(payload.cmd.upsert_kv.key, <<>>, None, FALSE)>>
    ELSE IF payload.cmd.cmd = "Transaction" THEN Branch(payload.cmd.txn, reply.success)
    ELSE <<>>

Writes(op, key) ==
    \/ op.t \in {"Put", "Delete"} /\ op.key = key
    \/ op.t = "DeleteByPrefix" /\ StartsWith(key, op.prefix)

\* The events are those of the ops, and the events of an op come before
\* those of the ops after it.
InOpOrder(events, ops) ==
    /\ \A i \in 1..Len(events) : \E p \in 1..Len(ops) : Writes(ops[p], events[i].key)
    /\ \A i, j \in 1..Len(events) :
         i < j => \E p, q \in 1..Len(ops) :
                    /\ p <= q
                    /\ Writes(ops[p], events[i].key)
                    /\ Writes(ops[q], events[j].key)

\* The batch of an entry: the events of the sweep, then those of the payload.
BatchInOrder(batch, sweep, ops) ==
    /\ Len(batch) >= Len(sweep)
    /\ SubSeq(batch, 1, Len(sweep)) = sweep
    /\ InOpOrder(SubSeq(batch, Len(sweep) + 1, Len(batch)), ops)

\* C15: with a subscriber set, apply_entries delivers the change events of
\* each entry while that entry is applied: what the subscriber had received
\* stays, the events of entry n come before those of entry n + 1, the batch
\* of an entry holds the events of its sweep in ExpireKey order followed by
\* those of its payload in op order, and no event is left in the queue.
C15_EventsInBatches ==
    [][AppliesBatch =>
         /\ last'.events = <<>>
         /\ Len(Unwrap(subscriber')) >= Len(Unwrap(subscriber))
         /\ SubSeq(Unwrap(subscriber'), 1, Len(Unwrap(subscriber))) = Unwrap(subscriber)
         /\ \A i, j \in 1..Len(Unwrap(subscriber')) :
              i < j => Unwrap(subscriber')[i].log_id.index
                         <= Unwrap(subscriber')[j].log_id.index
         /\ \A i \in (Len(Unwrap(subscriber)) + 1)..Len(Unwrap(subscriber')) :
              \E n \in 1..Len(AppliedBatch) :
                 Unwrap(subscriber')[i].log_id = AppliedBatch[n].log_id
         /\ \A n \in 1..Len(AppliedBatch) :
              BatchInOrder(BatchOf(subscriber', AppliedBatch[n].log_id),
                           SweepEvents(StateBefore(n), get_log_time(AppliedBatch[n])),
                           WritingOps(AppliedBatch[n].payload, last'.reply[n]))]_vars

\* C15: "a", "ab" (expiry 2 s) and "b" (expiry 1 s) were put by one entry,
\* and the next entry of the same batch, at 2000 ms, put "b" and deleted
\* what starts with "a": the subscriber received the three puts, then the
\* sweep of "b" and "ab" in ExpireKey order, then the put of "b" and the
\* deletion of "a".
C15_Witness ==
    /\ last.op = "apply_entries" /\ ~last.panic
    /\ Len(Unwrap(last.entry)) = 2
    /\ Unwrap(last.entry)[2].payload =
         PayloadNormal(Some(2000), CmdTransaction(PutAndDeleteByPrefixTxn))
    /\ last.events = <<>>
    /\ IsSome(subscriber)
    /\ Len(Unwrap(subscriber)) >= 7
    /\ [i \in 1..6 |-> Unwrap(subscriber)[i].event.key]
         = <<KeyA, KeyAB, KeyB, KeyB, KeyAB, KeyB>>
    /\ Unwrap(subscriber)[7].event.key = KeyA
    /\ Unwrap(subscriber)[3].log_id # Unwrap(subscriber)[4].log_id

(***************************************************************************)
(* Upserts of "a" with an expiry before, at and after the expiration       *)
(* cursor.                                                                 *)
(***************************************************************************)
ExpiredCmds ==
    { CmdUpsertKV(UpsertKV(KeyA, MatchAny, OpUpdate(V1), None)),
      CmdUpsertKV(UpsertKV(KeyA, MatchAny, OpUpdate(V2), Expire1s)),
      CmdUpsertKV(UpsertKV(KeyA, MatchAny, OpUpdate(V1), Expire2s)),
      CmdUpsertKV(UpsertKV(KeyA, MatchAny, OpAsIs, Expire1s)),
      CmdUpsertKV(UpsertKV(KeyA, MatchAny, OpAsIs, Expire2s)),
      CmdUpsertKV(UpsertKV(KeyA, MatchExact(0), OpUpdate(V2), Expire1s)) }

ExpiredPayloads ==
    {PayloadNormal(t, c) : t \in {None, Some(2000), Some(3000)}, c \in ExpiredCmds}

NextExpired ==
    \/ \E p \in ExpiredPayloads : Apply(p)
    \/ FullSnapshotView

SpecExpired == Init /\ [][NextExpired]_vars

\* The step applied an upsert that writes a record (an Update, or an AsIs of
\* a key that is live when the payload runs) whose expiry is before the
\* expiration cursor, as the sweep of the entry left it.
AppliesExpiredUpsert ==
    /\ AppliesUpsert
    /\ ~Mismatch(AppliedUpsert.seq, OptSeq(Observed(sm, AppliedTime, AppliedUpsert.key)))
    /\ \/ AppliedUpsert.value.t = "Update"
       \/ AppliedUpsert.value.t = "AsIs"
            /\ IsSome(Observed(sm, AppliedTime, AppliedUpsert.key))
    /\ IsSome(get_expire_at_ms(AppliedUpsert))
    /\ Unwrap(get_expire_at_ms(AppliedUpsert)) < sm'.expire_cursor[1]

\* The expiration entry of a record read by get_kv, if it has one.
ExpireEntryOf(seqv) ==
    IF IsSome(seqv) /\ IsSome(MetaExpireAtMs(Unwrap(seqv).meta))
    THEN {ExpireKey(Unwrap(MetaExpireAtMs(Unwrap(seqv).meta)), Unwrap(seqv).seq)}
    ELSE {}

\* C16: an upsert whose new record carries expire_at_ms < expire_cursor.time_ms
\* is written and deleted at once: after the apply the key is not found, the
\* result of the reply is None, the expiration index has no entry for the
\* key, the entry of the record it replaced is gone, and the seq counter has
\* advanced by one, as for a record that stays.
C16_ExpiredAtOnce ==
    [][AppliesExpiredUpsert =>
         /\ get_kv(sm', AppliedUpsert.key) = None
         /\ last'.reply.prev = Observed(sm, AppliedTime, AppliedUpsert.key)
         /\ last'.reply.result = None
         /\ \A ek \in DOMAIN LiveExpire(AllLevels(sm')) :
              LiveExpire(AllLevels(sm'))[ek].value # AppliedUpsert.key
         /\ ExpireEntryOf(get_kv(sm, AppliedUpsert.key))
              \cap DOMAIN LiveExpire(AllLevels(sm')) = {}
         /\ curr_seq(sm') = curr_seq(sm) + 1
         /\ sm'.writable.kv[AppliedUpsert.key] = TombStone(curr_seq(sm) + 1)]_vars

\* C16: "a" was live with expiry 2 s and the cursor at 2000 ms when an Update
\* of "a" with expiry 1 s was applied: the reply is (the old record, None),
\* the record of seq 3 was written and deleted, the index is empty.
C16_Witness ==
    /\ last.op = "apply" /\ ~last.panic
    /\ Unwrap(last.entry).payload =
         PayloadNormal(None, CmdUpsertKV(UpsertKV(KeyA, MatchAny, OpUpdate(V2), Expire1s)))
    /\ sm.expire_cursor = ExpireKey(2000, 0)
    /\ last.reply = [t |-> "KV", prev |-> Some(SeqV(2, Expire2s, V1)), result |-> None]
    /\ curr_seq(sm) = 3
    /\ sm.writable.kv[KeyA] = TombStone(3)
    /\ DOMAIN LiveExpire(AllLevels(sm)) = {}
    /\ get_kv(sm, KeyA) = None

(***************************************************************************)
(* Entries whose log times go forwards and backwards, and entries without  *)
(* a time.                                                                 *)
(***************************************************************************)
CursorPayloads ==
    {PayloadBlank, PayloadMembership(1)}
      \cup {PayloadNormal(t, c) :
              t \in {None, Some(0), Some(1000), Some(2000), Some(3000)},
              c \in { CmdUpsertKV(UpsertKV(KeyA, MatchAny, OpUpdate(V1), None)),
                      CmdUpsertKV(UpsertKV(KeyB, MatchAny, OpUpdate(V1), Expire2s)) }}

NextCursor == \E p \in CursorPayloads : Apply(p)

SpecCursor == Init /\ [][NextCursor]_vars

\* LogEntry.time_ms of the entry of the step; 0 if it has none.
EntryTime ==
    IF AppliedEntry.payload.t = "Normal" /\ IsSome(AppliedEntry.payload.time_ms)
    THEN Unwrap(AppliedEntry.payload.time_ms)
    ELSE 0

\* C17: over any sequence of applied entries expire_cursor never moves
\* backwards: an entry with a nonzero time_ms = t sets it to (t, 0) when
\* t >= expire_cursor.time_ms and leaves it as it is when t is smaller; an
\* entry without a time (Blank, Membership, Normal without time_ms or with
\* time_ms 0) leaves it as it is.
C17_CursorNeverBackwards ==
    [][Applies =>
         /\ ExpireKeyLE(sm.expire_cursor, sm'.expire_cursor)
         /\ (EntryTime # 0 /\ EntryTime >= sm.expire_cursor[1]) =>
              sm'.expire_cursor = ExpireKey(EntryTime, 0)
         /\ (EntryTime # 0 /\ EntryTime < sm.expire_cursor[1]) =>
              sm'.expire_cursor = sm.expire_cursor
         /\ EntryTime = 0 => sm'.expire_cursor = sm.expire_cursor]_vars

\* C17: an entry of time 1000 ms was applied after one of 3000 ms, with a
\* record of expiry 2 s written in between: the cursor stays at (3000, 0).
C17_Witness ==
    /\ last.op = "apply" /\ ~last.panic
    /\ Unwrap(last.entry).log_id = LogId(1, 3)
    /\ Unwrap(last.entry).payload.t = "Normal"
    /\ Unwrap(last.entry).payload.time_ms = Some(1000)
    /\ sm.expire_cursor = ExpireKey(3000, 0)
    /\ curr_seq(sm) = 3

(***************************************************************************)
(* A snapshot view that is held while the state machine goes on: entries   *)
(* are applied, the writable level is frozen again, the view is compacted  *)
(* and put back with replace_base.                                         *)
(***************************************************************************)
ViewPayloads ==
    { PayloadMembership(1),
      PayloadNormal(None, CmdAddNode(1, Node1, FALSE)),
      PayloadNormal(None, CmdRemoveNode(1)),
      UpdateA,
      DeleteA,
      PayloadNormal(Some(1000), CmdUpsertKV(UpsertKV(KeyB, MatchAny, OpUpdate(V1), Expire2s))),
      PayloadNormal(Some(2000), CmdUpsertKV(UpsertKV(KeyAB, MatchAny, OpUpdate(V2), None))) }

\* SMV003::full_snapshot_view, the view it returns is held.
TakeView == IsNone(view) /\ FullSnapshotView

\* SMV003::full_snapshot_view, the view it returns is dropped: the writable
\* level is frozen, and the view held, if any, is kept.
FreezeAgain ==
    /\ ~last.panic
    /\ arcs < MaxFreeze
    /\ arcs' = arcs + 1
    /\ sm' = freeze_writable(sm, arcs + 1)
    /\ last' = Last("freeze_again", None, ReplyNone, <<>>, FALSE)
    /\ UNCHANGED <<view, importing, peer, subscriber, importer, disk, ondisk, raft_store>>

NextView ==
    \/ \E p \in ViewPayloads : Apply(p)
    \/ TakeView
    \/ FreezeAgain
    \/ CompactMemLevels
    \/ ReplaceBase

SpecView == Init /\ [][NextView]_vars

\* The entries of one kind of an exported snapshot, in the order exported.
EntriesOfKind(data, kind) == SelectSeq(data, LAMBDA e : e.t = kind)

\* An exported snapshot holds exactly the state of a state machine: its live
\* kv records, its live expiration records, its nodes, its seq counter, its
\* last_applied and its last_membership.
ExportHolds(data, s) ==
    /\ {<<e.key, e.value>> : e \in {data[i] : i \in {j \in 1..Len(data) : data[j].t = "GenericKV"}}}
         = {<<k, Unwrap(get_kv(s, k))>> : k \in {x \in Keys : IsSome(get_kv(s, x))}}
    /\ {<<e.key, e.value>> : e \in {data[i] : i \in {j \in 1..Len(data) : data[j].t = "Expire"}}}
         = {<<ek, [key |-> LiveExpire(AllLevels(s))[ek].value,
                   seq |-> LiveExpire(AllLevels(s))[ek].internal_seq]>>
            : ek \in DOMAIN LiveExpire(AllLevels(s))}
    /\ {<<e.key, e.value>> : e \in {data[i] : i \in {j \in 1..Len(data) : data[j].t = "Nodes"}}}
         = {<<n, nodes_ref(s)[n]>> : n \in DOMAIN nodes_ref(s)}
    /\ EntriesOfKind(data, "Sequences") = <<EntrySequences("generic-kv", curr_seq(s))>>
    /\ EntriesOfKind(data, "LastApplied")
         = (IF IsSome(last_applied_ref(s))
            THEN <<EntryLastApplied(Unwrap(last_applied_ref(s)))>> ELSE <<>>)
    /\ EntriesOfKind(data, "LastMembership") = <<EntryLastMembership(last_membership_ref(s))>>

\* C18: the view that full_snapshot_view returns exports exactly the state
\* the state machine has at that moment, and its meta carries the
\* last_applied and last_membership of that moment; afterwards, whatever is
\* applied (inserts, deletes, sweeps), however often the writable level is
\* frozen again, and through compact_mem_levels and replace_base, export and
\* build_snapshot_meta of the view return what they returned before.
C18_ViewIsStatic ==
    [][/\ (IsNone(view) /\ IsSome(view')) =>
            /\ ExportHolds(export(Unwrap(view')), sm)
            /\ build_snapshot_meta(Unwrap(view'))
                 = [last_log_id |-> last_applied_ref(sm),
                    last_membership |-> last_membership_ref(sm)]
       /\ IsSome(view) =>
            /\ IsSome(view')
            /\ export(Unwrap(view')) = export(Unwrap(view))
            /\ build_snapshot_meta(Unwrap(view')) = build_snapshot_meta(Unwrap(view))]_vars

\* C18: a view was taken of "a" and "b" (with its expiration entry), then the
\* writable level was frozen again and an entry swept "b" and wrote "ab": the
\* view still exports "a", "b" and the expiration entry of "b".
C18_Witness ==
    /\ IsSome(view)
    /\ last.op = "apply" /\ ~last.panic
    /\ Len(sm.frozen) = 2
    /\ ExportedKeys(export(Unwrap(view))) = {KeyA, KeyB}
    /\ Len(EntriesOfKind(export(Unwrap(view)), "Expire")) = 1
    /\ DOMAIN LiveKV(AllLevels(sm)) = {KeyA, KeyAB}
    /\ DOMAIN LiveExpire(AllLevels(sm)) = {}
    /\ build_snapshot_meta(Unwrap(view)).last_log_id = Some(LogId(1, 2))
    /\ last_applied_ref(sm) = Some(LogId(1, 3))

\* SMV003::import: the entries go through an importer, which is committed.
sm_import(data) == commit(ImportAll(Importer0, data))

\* A snapshot view of one level, as test_import builds it.
ViewOfLevel(d) == SnapshotView(<<Arc(0, d)>>)

\* Importing an exported snapshot into an empty state gives one level with
\* the live records and the sys-data of the levels exported, and exporting
\* that level gives the same entries again.
RoundTrip(levels, data) ==
    /\ commit_ok(ImportAll(Importer0, data))
    /\ sm_import(data).kv = LiveKV(levels)
    /\ sm_import(data).expire = LiveExpire(levels)
    /\ sm_import(data).sys.nodes = levels[Len(levels)].sys.nodes
    /\ sm_import(data).sys.last_applied = levels[Len(levels)].sys.last_applied
    /\ sm_import(data).sys.last_membership = levels[Len(levels)].sys.last_membership
    /\ sm_import(data).sys.seq = levels[Len(levels)].sys.seq
    /\ export(ViewOfLevel(sm_import(data))) = data

\* C19: for every state of the state machine, and for every view held,
\* compacted or not, the entries of export fed into the importer of an empty
\* state give a LevelData with the same live kv records, the same live
\* expiration records, the same nodes, last_applied, last_membership and
\* seq, and the export of that LevelData is the same sequence of entries.
C19_ExportImportRoundTrip ==
    /\ RoundTrip(AllLevels(sm), SnapshotOf(sm))
    /\ IsSome(view) =>
         RoundTrip(ArcLevels(Unwrap(view).compacted), export(Unwrap(view)))

\* C19: "a" is deleted over a frozen level that holds it, "b" is live with
\* an expiry; the snapshot of the state machine imports as "b" and its
\* expiration entry alone.
C19_Witness ==
    /\ Len(sm.frozen) = 1
    /\ KeyA \in Shadowed(AllLevels(sm))
    /\ KeyA \in DOMAIN LiveKV(ArcLevels(sm.frozen))
    /\ sm_import(SnapshotOf(sm)).kv = (KeyB :> Normal(2, V1, Expire2s))
    /\ sm_import(SnapshotOf(sm)).expire = (ExpireKey(2000, 2) :> Normal(2, KeyB, None))
    /\ sm_import(SnapshotOf(sm)).sys.seq = 2
    /\ sm_import(SnapshotOf(sm)).sys.last_applied = Some(LogId(1, 3))

\* The place of each kind of entry in an exported snapshot.
KindRank(kind) ==
    CASE kind = "DataHeader" -> 1
      [] kind = "LastApplied" -> 2
      [] kind = "LastMembership" -> 3
      [] kind = "Sequences" -> 4
      [] kind = "Nodes" -> 5
      [] kind = "GenericKV" -> 6
      [] kind = "Expire" -> 7

\* The keys, kv or expire, whose newest record over a stack of levels is Normal.
LiveKeysOf(levels, which) ==
    {k \in LevelsKeys(levels, which) : ~LevelsGet(levels, which, k).tomb}

\* The entries of a sequence are in strictly ascending order of their keys.
Ascending(ents, LT(_, _)) ==
    \A i \in 1..(Len(ents) - 1) : LT(ents[i].key, ents[i + 1].key)

\* The entries applied before and after the views whose export is examined:
\* kv records with and without expiry, a deletion, a sweep, a node, a
\* membership.
ExportPayloads ==
    { PayloadMembership(1),
      PayloadNormal(None, CmdTransaction(SeedTxn)),
      PayloadNormal(None, CmdAddNode(1, Node1, FALSE)),
      DeleteA,
      PayloadNormal(Some(2000), CmdUpsertKV(UpsertKV(KeyAB, MatchAny, OpUpdate(V2), None))) }

NextExport ==
    \/ \E p \in ExportPayloads : Apply(p)
    \/ TakeView
    \/ FreezeAgain
    \/ CompactMemLevels

SpecExport == Init /\ [][NextExport]_vars

\* An entry is one of the entries of a sequence of entries of its kind.
HoldsEntry(ents, e) == \E i \in 1..Len(ents) : ents[i] = e

\* The entries exported for a stack of levels, kind by kind.
ExportInOrder(levels, data) ==
    /\ \A i, j \in 1..Len(data) : i < j => KindRank(data[i].t) <= KindRank(data[j].t)
    /\ EntriesOfKind(data, "DataHeader") = <<EntryDataHeader>>
    /\ EntriesOfKind(data, "LastApplied")
         = (IF IsSome(levels[Len(levels)].sys.last_applied)
            THEN <<EntryLastApplied(Unwrap(levels[Len(levels)].sys.last_applied))>>
            ELSE <<>>)
    /\ EntriesOfKind(data, "LastMembership")
         = <<EntryLastMembership(levels[Len(levels)].sys.last_membership)>>
    /\ EntriesOfKind(data, "Sequences")
         = <<EntrySequences("generic-kv", levels[Len(levels)].sys.seq)>>
    /\ Len(EntriesOfKind(data, "Nodes")) = Cardinality(DOMAIN levels[Len(levels)].sys.nodes)
    /\ \A n \in DOMAIN levels[Len(levels)].sys.nodes :
         HoldsEntry(EntriesOfKind(data, "Nodes"),
                    EntryNodes(n, levels[Len(levels)].sys.nodes[n]))
    /\ Ascending(EntriesOfKind(data, "GenericKV"), BytesLT)
    /\ Len(EntriesOfKind(data, "GenericKV")) = Cardinality(LiveKeysOf(levels, "kv"))
    /\ \A k \in LiveKeysOf(levels, "kv") :
         HoldsEntry(EntriesOfKind(data, "GenericKV"),
                    EntryGenericKV(k, Unwrap(ToSeqV(LevelsGet(levels, "kv", k)))))
    /\ Ascending(EntriesOfKind(data, "Expire"), ExpireKeyLT)
    /\ Len(EntriesOfKind(data, "Expire")) = Cardinality(LiveKeysOf(levels, "expire"))
    /\ \A ek \in LiveKeysOf(levels, "expire") :
         HoldsEntry(EntriesOfKind(data, "Expire"),
                    EntryExpire(ek, [key |-> LevelsGet(levels, "expire", ek).value,
                                     seq |-> LevelsGet(levels, "expire", ek).internal_seq]))
    /\ ExportedKeys(data) \cap Shadowed(levels) = {}

\* C20: export emits the DataHeader, the LastApplied entry only if
\* last_applied is Some, the LastMembership entry, the Sequences entry of key
\* "generic-kv" with the seq counter, one Nodes entry per node, one GenericKV
\* entry per live key in ascending key order and one Expire entry per live
\* expiration record in ascending ExpireKey order, in this order; tombstones
\* and the keys under a tombstone are not exported. It holds for the view
\* held, compacted or not, and for a view of the state machine as it is.
C20_ExportOrder ==
    /\ ExportInOrder(AllLevels(sm), SnapshotOf(sm))
    /\ IsSome(view) =>
         ExportInOrder(ArcLevels(Unwrap(view).compacted), export(Unwrap(view)))

\* C20: the view held has two levels: "a", "ab" (expiry 2 s) and "b" (expiry
\* 1 s) in the older, a tombstone of "a" in the newer. It exports "ab" and
\* "b" and then the expiration entries of "b" and of "ab".
C20_Witness ==
    /\ IsSome(view)
    /\ Len(Unwrap(view).compacted) = 2
    /\ Shadowed(ArcLevels(Unwrap(view).compacted)) = {KeyA}
    /\ Len(export(Unwrap(view))) = 8
    /\ [i \in 1..8 |-> export(Unwrap(view))[i].t]
         = <<"DataHeader", "LastApplied", "LastMembership", "Sequences",
             "GenericKV", "GenericKV", "Expire", "Expire">>
    /\ [i \in 5..8 |-> export(Unwrap(view))[i].key]
         = [i \in 5..8 |-> <<KeyAB, KeyB, ExpireKey(1000, 3), ExpireKey(2000, 2)>>[i - 4]]

\* The step is a call of compact_mem_levels on the view held.
CompactsView == last'.op = "compact_mem_levels"

\* The records of a level are those of the newest Normal records of a stack
\* of levels, and its sys-data is that of the newest level of the stack.
HoldsLiveOf(d, levels) ==
    /\ DOMAIN d.kv = LiveKeysOf(levels, "kv")
    /\ \A k \in DOMAIN d.kv : d.kv[k] = LevelsGet(levels, "kv", k)
    /\ DOMAIN d.expire = LiveKeysOf(levels, "expire")
    /\ \A ek \in DOMAIN d.expire : d.expire[ek] = LevelsGet(levels, "expire", ek)
    /\ d.sys = levels[Len(levels)].sys

\* C21: compact_mem_levels preserves what a view shows: export after it
\* yields the entry sequence of export before it, and the level compacted
\* from several levels holds the live kv and expiration records of the
\* merged view with the seq, last_applied, last_membership and nodes of the
\* newest level.
C21_CompactionPreservesExport ==
    [][CompactsView =>
          /\ export(Unwrap(view')) = export(Unwrap(view))
          /\ Len(Unwrap(view).compacted) > 1 =>
               HoldsLiveOf(Newest(Unwrap(view').compacted).d,
                           ArcLevels(Unwrap(view).compacted))]_vars

\* C21: a view of two levels has been compacted: the older level held "a",
\* "ab" and "b", the newer one the tombstone of "a"; the compacted level
\* holds "ab" and "b" and their two expiration records.
C21_Witness ==
    /\ last.op = "compact_mem_levels"
    /\ IsSome(view)
    /\ Len(Unwrap(view).original) = 2
    /\ Shadowed(ArcLevels(Unwrap(view).original)) = {KeyA}
    /\ Len(Unwrap(view).compacted) = 1
    /\ DOMAIN Newest(Unwrap(view).compacted).d.kv = {KeyAB, KeyB}
    /\ DOMAIN Newest(Unwrap(view).compacted).d.expire
         = {ExpireKey(1000, 3), ExpireKey(2000, 2)}

\* A level holds no tombstone, in its kv map or in its expiration map.
NoTombstone(d) ==
    /\ \A k \in DOMAIN d.kv : ~d.kv[k].tomb
    /\ \A ek \in DOMAIN d.expire : ~d.expire[ek].tomb

\* The compacted data of a view is one level without tombstones.
OneCleanLevel(v) ==
    /\ Len(v.compacted) = 1
    /\ NoTombstone(Newest(v.compacted).d)

InstallsLocked == last'.op = "install_snapshot"

\* C23: install_snapshot of a snapshot whose last_applied is at or below the
\* last_applied of a state machine that has applied something returns Ok and
\* changes nothing: levels, records, sys-data and expire_cursor stay as they
\* are. A state machine whose last_applied is None installs every snapshot,
\* one without last_applied too: its levels become the imported level alone.
C23_OldSnapshotIsNoOp ==
    [][InstallsLocked =>
          /\ (IsSome(sm.writable.sys.last_applied)
                /\ OptLogIdLE(Unwrap(importing).sys.last_applied,
                              sm.writable.sys.last_applied))
               => (sm' = sm /\ ~last'.panic)
          /\ IsNone(sm.writable.sys.last_applied)
               => /\ ~last'.panic
                  /\ sm'.frozen = <<>>
                  /\ sm'.writable = Unwrap(importing)]_vars

\* C23: the snapshot of the view held, as new as the state machine, has been
\* imported and then skipped by install_snapshot: the frozen level and the
\* expire_cursor are still there.
C23_Witness ==
    /\ last.op = "install_snapshot" /\ ~last.panic
    /\ IsSome(view)
    /\ IsSome(last_applied_ref(sm))
    /\ Newest(Unwrap(view).compacted).d.sys.last_applied = last_applied_ref(sm)
    /\ Len(sm.frozen) >= 1
    /\ sm.expire_cursor # ExpireKey(0, 0)

\* The entries a replica applies itself before and after it installs a
\* snapshot: writes of "a" at the times 2 s and 3 s.
ReinstallPayloads ==
    { PayloadNormal(Some(2000), CmdUpsertKV(UpsertKV(KeyA, MatchAny, OpUpdate(V1), None))),
      PayloadNormal(Some(3000), CmdUpsertKV(UpsertKV(KeyA, MatchAny, OpUpdate(V2), None))) }

\* What a leader that is one entry ahead has applied: "b" with an expiry of
\* 1 s or of 2 s, in entries that carry no time or an earlier one.
StaleLeaderPayloads ==
    { PayloadNormal(None, CmdUpsertKV(UpsertKV(KeyB, MatchAny, OpUpdate(V1), Expire1s))),
      PayloadNormal(Some(1000), CmdUpsertKV(UpsertKV(KeyB, MatchAny, OpUpdate(V2), Expire2s))) }

\* The snapshot of a leader that was itself rebuilt from a snapshot of the
\* state s, its expire_cursor at (0, 0), and then applied one more entry.
RebuiltLeaderSnapshot(s, payload) ==
    SnapshotOf(apply(Installed(SnapshotOf(s)), Entry(LogId(1, NextIndex(s)), payload)).sm)

\* The snapshots that arrive at the replica: of a rebuilt leader one entry
\* ahead, and of the replica's own state (not newer than the replica).
ReinstallSnapshots ==
    (IF NextIndex(sm) <= MaxIndex
     THEN {RebuiltLeaderSnapshot(sm, p) : p \in StaleLeaderPayloads}
     ELSE {})
      \cup {SnapshotOf(sm)}

NextReinstall ==
    \/ \E p \in ReinstallPayloads : Apply(p)
    \/ FullSnapshotView
    \/ \E data \in ReinstallSnapshots : ImportSnapshot(data)
    \/ InstallSnapshot

SpecReinstall == Init /\ [][NextReinstall]_vars

\* The state machine is as install_snapshot leaves it when it installs.
JustInstalled ==
    /\ last.op = "install_snapshot" /\ ~last.panic
    /\ Len(sm.frozen) = 0

\* C24: a snapshot that is installed replaces the levels by one level that
\* holds the imported data, and expire_cursor is (0, 0) again; the entry
\* applied next, with a time t that is not 0, deletes every imported key
\* whose expire_at_ms is at or before t, also one whose expiry is before the
\* time of the entry applied last before the install.
C24_InstallResetsCursor ==
    [][/\ (InstallsLocked /\ ~install_skipped(sm, Unwrap(importing)) /\ ~last'.panic) =>
             /\ sm'.frozen = <<>>
             /\ sm'.writable = Unwrap(importing)
             /\ sm'.expire_cursor = ExpireKey(0, 0)
       /\ (JustInstalled /\ Applies /\ AppliedTime # 0) =>
             \A k \in ExpiredAt(sm, AppliedTime) :
                /\ \E i \in 1..Len(last'.events) :
                      last'.events[i] = Change(k, get_kv(sm, k), None)
                /\ IsSome(get_kv(sm', k)) => Unwrap(get_kv(sm', k)).seq > curr_seq(sm)]_vars

\* C24: the replica applied a write of "a" with a time of at least 2 s,
\* installed the snapshot of a leader holding "b" with an expiry of 1 s, and
\* the third entry, its own again, swept "b".
C24_Witness ==
    /\ last.op = "apply" /\ ~last.panic
    /\ last_applied_ref(sm) = Some(LogId(1, 3))
    /\ Len(sm.frozen) = 0
    /\ \E i \in 1..Len(last.events) :
          /\ last.events[i].key = KeyB
          /\ IsSome(last.events[i].prev)
          /\ MetaExpireAtMs(Unwrap(last.events[i].prev).meta) = Some(1000)
          /\ IsNone(last.events[i].result)
    /\ IsNone(get_kv(sm, KeyB))
    /\ IsSome(get_kv(sm, KeyA))

(***************************************************************************)
(* An importer fed one entry at a time.                                    *)
(***************************************************************************)
\* The longest stream of entries fed to one importer.
MaxImport == 3

\* The entries of a stream that are not part of the state machine.
EntryLogs == [t |-> "Logs", key |-> 1, value |-> "blank"]
EntryLogMeta == [t |-> "LogMeta", key |-> "LastPurged", value |-> LogId(1, 1)]
EntryRaftStateKV == [t |-> "RaftStateKV", key |-> "Id", value |-> 1]
EntryInitialized == [t |-> "Initialized", value |-> TRUE]
IgnoredEntries ==
    <<EntryDataHeader, EntryLogs, EntryLogMeta, EntryRaftStateKV, EntryInitialized>>
IsIgnored(ent) == ent.t \in {"DataHeader", "Logs", "LogMeta", "RaftStateKV", "Initialized"}

\* The entries of a stream that are part of the state machine: the seq
\* counter at 0 or 2, records of seq 1 to 3, an Expire entry of the legacy
\* seq 0, a node, last_applied and last_membership.
StateEntries ==
    <<EntrySequences("generic-kv", 0),
      EntrySequences("generic-kv", 2),
      EntryGenericKV(KeyA, SeqV(1, None, V1)),
      EntryGenericKV(KeyA, SeqV(2, None, V1)),
      EntryGenericKV(KeyA, SeqV(3, None, V1)),
      EntryExpire(ExpireKey(1000, 1), [key |-> KeyA, seq |-> 0]),
      EntryExpire(ExpireKey(1000, 1), [key |-> KeyA, seq |-> 1]),
      EntryExpire(ExpireKey(1000, 1), [key |-> KeyA, seq |-> 3]),
      EntryNodes(1, Node1),
      EntryLastApplied(LogId(1, 1)),
      EntryLastMembership([log_id |-> Some(LogId(1, 1)), membership |-> 1])>>

\* SMV003::new_importer
NewImporter ==
    /\ ~last.panic
    /\ IsNone(importer)
    /\ importer' = Some(Importer0)
    /\ last' = Last("new_importer", None, ReplyNone, <<>>, FALSE)
    /\ UNCHANGED <<sm, view, importing, arcs, peer, subscriber, disk, ondisk, raft_store>>

\* Importer::import of one more entry; `last.events` keeps the stream fed to
\* the importer so far.
ImportEntry(ent) ==
    /\ ~last.panic
    /\ IsSome(importer)
    /\ Len(last.events) < MaxImport
    /\ importer' = Some(import(Unwrap(importer), ent))
    /\ last' = Last("import_entry", None, ReplyNone, Append(last.events, ent), FALSE)
    /\ UNCHANGED <<sm, view, importing, arcs, peer, subscriber, disk, ondisk, raft_store>>

\* Importer::commit: the level data, or the failed assertion.
CommitImporter ==
    /\ ~last.panic
    /\ IsSome(importer)
    /\ importer' = None
    /\ IF commit_ok(Unwrap(importer))
       THEN /\ importing' = Some(commit(Unwrap(importer)))
            /\ last' = Last("commit", None, ReplyNone, last.events, FALSE)
       ELSE /\ importing' = importing
            /\ last' = Last("commit", None, ReplyNone, last.events, TRUE)
    /\ UNCHANGED <<sm, view, arcs, peer, subscriber, disk, ondisk, raft_store>>

NextImport ==
    \/ NewImporter
    \/ \E i \in 1..Len(StateEntries) : ImportEntry(StateEntries[i])
    \/ \E i \in 1..Len(IgnoredEntries) : ImportEntry(IgnoredEntries[i])
    \/ CommitImporter

SpecImport == Init /\ [][NextImport]_vars

\* The seq an imported record is counted with: a legacy Expire entry of seq
\* 0 counts as seq 1.
CountedSeq(ent) ==
    IF ent.t = "Expire" /\ ent.value.seq = 0 THEN 1 ELSE ent.value.seq

\* The greatest seq of the GenericKV and Expire entries of a stream.
RECURSIVE GreatestSeqOf(_)
GreatestSeqOf(stream) ==
    IF Len(stream) = 0 THEN 0
    ELSE IF stream[1].t \in {"GenericKV", "Expire"}
         THEN Max(CountedSeq(stream[1]), GreatestSeqOf(Tail(stream)))
         ELSE GreatestSeqOf(Tail(stream))

\* The seq counter a stream sets: that of its last Sequences entry.
RECURSIVE SeqCounterOf(_)
SeqCounterOf(stream) ==
    IF Len(stream) = 0 THEN 0
    ELSE IF stream[Len(stream)].t = "Sequences" THEN stream[Len(stream)].value
         ELSE SeqCounterOf(SubSeq(stream, 1, Len(stream) - 1))

\* The greatest seq of the records of a level is at or below its seq counter.
SeqsWithinCounter(d) ==
    /\ \A k \in DOMAIN d.kv : d.kv[k].internal_seq <= d.sys.seq
    /\ \A ek \in DOMAIN d.expire : d.expire[ek].internal_seq <= d.sys.seq

\* The step is Importer::commit.
Commits == last'.op = "commit"

\* C25: Importer::commit fails its assertion whenever the greatest seq of the
\* imported GenericKV and Expire entries, a legacy Expire entry of seq 0
\* counted as 1, is above the imported seq counter; when it succeeds no
\* record of the level committed has a seq above the counter. The Sequences
\* entry may come before, between or after the records.
C25_CommitChecksSeq ==
    [][Commits =>
          /\ last'.panic <=> (GreatestSeqOf(last.events) > SeqCounterOf(last.events))
          /\ ~last'.panic =>
               /\ IsSome(importing')
               /\ SeqsWithinCounter(Unwrap(importing'))
               /\ Unwrap(importing').sys.seq = SeqCounterOf(last.events)]_vars

\* C25: a legacy Expire entry of seq 0 came before a Sequences entry of 0,
\* and commit failed: the record counts as seq 1.
C25_Witness ==
    /\ last.op = "commit" /\ last.panic
    /\ Len(last.events) = 2
    /\ last.events[1].t = "Expire" /\ last.events[1].value.seq = 0
    /\ last.events[2].t = "Sequences" /\ last.events[2].value = 0

\* What of an importer makes the level it commits.
ImporterState(imp) ==
    <<imp.kv, imp.expire, imp.level_data.sys.nodes, imp.level_data.sys.last_applied,
      imp.level_data.sys.last_membership, imp.level_data.sys.seq, imp.greatest_seq>>

\* The entries of a stream that are part of the state machine.
StateEntriesOf(stream) == SelectSeq(stream, LAMBDA e : ~IsIgnored(e))

\* C26: a DataHeader, Logs, LogMeta or RaftStateKV entry, or a
\* StateMachineMeta entry of key Initialized, leaves kv, expire, nodes,
\* last_applied, last_membership, seq and greatest_seq of the importer as they
\* are; the importer, and so the level it commits, is that of the Nodes,
\* LastApplied, LastMembership, Sequences, GenericKV and Expire entries of
\* the stream alone.
C26_IgnoredEntries ==
    [][(last'.op = "import_entry" /\ IsIgnored(last'.events[Len(last'.events)])) =>
          /\ ImporterState(Unwrap(importer')) = ImporterState(Unwrap(importer))
          /\ Unwrap(importer') = ImportAll(Importer0, StateEntriesOf(last'.events))]_vars

\* C26: an importer was fed a GenericKV entry, a Logs entry and a
\* StateMachineMeta entry of key Initialized: it holds the one kv record.
C26_Witness ==
    /\ last.op = "import_entry"
    /\ Len(last.events) = 3
    /\ last.events[1].t = "GenericKV" /\ last.events[1].value.seq = 2
    /\ last.events[2].t = "Logs"
    /\ last.events[3].t = "Initialized"
    /\ IsSome(importer)
    /\ DOMAIN Unwrap(importer).kv = {KeyA}
    /\ Unwrap(importer).greatest_seq = 2

\* The seqs of the records, Normal or tombstone, of the kv and expiration
\* maps of a stack of levels.
SeqsPresent(levels) ==
    UNION {{levels[i].kv[k].internal_seq : k \in DOMAIN levels[i].kv}
             \cup {levels[i].expire[ek].internal_seq : ek \in DOMAIN levels[i].expire}
           : i \in 1..Len(levels)}

\* The greatest seq of the records present, 0 if there is none.
MaxSeqPresent(levels) ==
    IF SeqsPresent(levels) = {} THEN 0
    ELSE CHOOSE n \in SeqsPresent(levels) : \A m \in SeqsPresent(levels) : m <= n

\* No frozen level of the state machine is a compacted one.
NeverCompacted(s) == \A i \in 1..Len(s.frozen) : s.frozen[i].id > 0

\* C27 as stated: the seq counter is the greatest seq of the records, live
\* or tombstone, present in the levels, or 0 when there is none.
C27_SeqIsMaxPresent ==
    curr_seq(sm) = MaxSeqPresent(AllLevels(sm))

\* C27: the seq counter is never below the seq of a record present in the
\* levels; while the levels are those the entries were applied to, frozen or
\* not, it is the greatest seq of the records present, or 0 when none was
\* written. A base compacted and put back by replace_base has lost its
\* tombstones and the records under them, and the counter may be above every
\* record left.
C27_SeqIsMaxUntilCompacted ==
    /\ curr_seq(sm) >= MaxSeqPresent(AllLevels(sm))
    /\ NeverCompacted(sm) => curr_seq(sm) = MaxSeqPresent(AllLevels(sm))

\* C27: "a" was written, a level frozen, "a" deleted, a view of the two
\* levels compacted and put back as base: no record is left and the counter
\* is 1.
C27_Witness ==
    /\ last.op = "replace_base" /\ ~last.panic
    /\ Len(sm.frozen) = 1 /\ ~NeverCompacted(sm)
    /\ SeqsPresent(AllLevels(sm)) = {}
    /\ curr_seq(sm) = 1

\* The entries applied, in log order, while snapshots are installed:
\* memberships between blank entries and a write.
MemberPayloads ==
    { PayloadBlank, PayloadMembership(1), PayloadMembership(2), UpdateA }

NextMember ==
    \/ \E p \in MemberPayloads : Apply(p)
    \/ FullSnapshotView
    \/ \E data \in SnapshotsArriving : ImportSnapshot(data)
    \/ InstallSnapshot

SpecMember == Init /\ [][NextMember]_vars

\* The log id of last_membership is at or below last_applied in a level.
MembershipApplied(d) == OptLogIdLE(d.sys.last_membership.log_id, d.sys.last_applied)

\* The step applied a Membership entry.
AppliesMembership == Applies /\ AppliedEntry.payload.t = "Membership"

MaxCrashes == 2

\* The trees of a store written by a V0 program: records of both
\* generations, a state machine and a second one half-installed.
TreesV0 ==
    [n \in {"raft_state", "raft_log", "state_machine/1", "state_machine/2"} |->
        CASE n = "raft_state" -> <<Encoded("v07", "Id")>>
          [] n = "raft_log" -> <<Encoded("v07", "Log1"), Encoded("v08", "Log2")>>
          [] n = "state_machine/1" ->
               <<Encoded("v07", "Initialized"), Encoded("v08", "GenericKV")>>
          [] n = "state_machine/2" -> <<Encoded("v07", "Nodes")>>]

\* The trees with every record in the generation "v08".
Reencoded(trees) ==
    [n \in DOMAIN trees |-> [i \in 1..Len(trees[n]) |-> serialize(trees[n][i].entry)]]

\* The trees of a V002 store: the state machine is in the snapshot file.
TreesV002 == [n \in {"raft_state", "raft_log"} |-> Reencoded(TreesV0)[n]]

\* The least version the program opens: DataVersion::min_compatible_data_version
\* of the working version, any version below it.
MinCompatibles == {"V0", "V001", "V002"}

\* The data directories the program may find: empty, written by a V0 program
\* with and without a header record, of version V001 with two state machine
\* trees, with the one of the larger id alone and with none, of version V002
\* and of the working version.
StoresOnDisk ==
    {Disk(h[1], h[2], h[3], m) :
        h \in { <<None, EmptyMap, None>>,
                <<None, TreesV0, None>>,
                <<Some(Header("V0", None)), TreesV0, None>>,
                <<Some(Header("V001", None)), Reencoded(TreesV0), None>>,
                <<Some(Header("V001", None)), DropTree(Reencoded(TreesV0), "state_machine/1"), None>>,
                <<Some(Header("V001", None)), TreesV002, None>>,
                <<Some(Header("V002", None)), TreesV002, Some(<<"GenericKV">>)>>,
                <<Some(Header("V003", None)), TreesV002, Some(<<"GenericKV">>)>> },
        m \in MinCompatibles}

InitOnDisk ==
    /\ sm = SM0
    /\ view = None
    /\ importing = None
    /\ arcs = 0
    /\ peer = None
    /\ last = Last("init", None, ReplyNone, <<>>, FALSE)
    /\ subscriber = None
    /\ importer = None
    /\ disk \in StoresOnDisk
    /\ ondisk = None
    /\ raft_store = RaftStore0

\* The process goes on at pc with the header kept in memory.
GoesOn(op, o) ==
    /\ ondisk' = Some(o)
    /\ last' = Last(op, None, ReplyNone, <<>>, FALSE)

\* The process dies: a panic, todo!() or unreachable!(), or an error returned.
Dies(op) ==
    /\ ondisk' = None
    /\ last' = Last(op, None, ReplyNone, <<>>, TRUE)

\* OnDisk::write_header
write_header(d, header) == [d EXCEPT !.header = Some(header)]

\* OnDisk::open and OnDisk::new: the header is loaded, or written as V0 when
\* there is none; a version below the least compatible one is a panic.
OpenWith(header) ==
    /\ disk' = write_header(disk, header)
    /\ IF VersionRank(header.version) < VersionRank(disk.min_compatible)
       THEN Dies("open")
       ELSE GoesOn("open", OnDisk(header, "upgrade", 1, 1, {}))

OpenOnDisk ==
    /\ IsNone(ondisk)
    /\ OpenWith(IF IsSome(disk.header) THEN Unwrap(disk.header) ELSE Header("V0", None))
    /\ UNCHANGED <<sm, view, importing, arcs, peer, subscriber, importer, raft_store>>

\* What follows the match on an unfinished upgrade.
ResumeWith(o, next) ==
    CASE next = "loop" -> disk' = disk /\ GoesOn("upgrade", [o EXCEPT !.pc = "loop"])
      [] next = "clear" ->
           /\ disk' = [write_header(disk, [o.header EXCEPT !.upgrading = None])
                          EXCEPT !.resumes = @ + 1]
           /\ GoesOn("upgrade", [o EXCEPT !.pc = "loop", !.header.upgrading = None])
      [] next = "remove" ->
           /\ disk' = [disk EXCEPT !.resumes = @ + 1]
           /\ GoesOn("upgrade", [o EXCEPT !.pc = "remove"])
      [] next = "panic" -> disk' = disk /\ Dies("upgrade")

\* OnDisk::upgrade, first part: an unfinished upgrade is cleaned up and the
\* upgrading flag cleared.
ResumeUpgrading ==
    /\ IsSome(ondisk)
    /\ Unwrap(ondisk).pc = "upgrade"
    /\ ResumeWith(Unwrap(ondisk),
                  resume_upgrading(Unwrap(ondisk).header.upgrading, IsSome(disk.snapshot)))
    /\ UNCHANGED <<sm, view, importing, arcs, peer, subscriber, importer, raft_store>>

\* The loop of OnDisk::upgrade is over: the version is the working version.
UpgradeReturns ==
    /\ IsSome(ondisk)
    /\ Unwrap(ondisk).pc = "loop"
    /\ Unwrap(ondisk).header.version = DATA_VERSION
    /\ disk' = disk
    /\ GoesOn("upgrade_done", [Unwrap(ondisk) EXCEPT !.pc = "done"])
    /\ UNCHANGED <<sm, view, importing, arcs, peer, subscriber, importer, raft_store>>

\* OnDisk::begin_upgrading at the start of upgrade_v0_to_v001 and of
\* upgrade_v001_to_v002: the upgrading flag is set and the header written.
BeganWith(o, header) ==
    /\ disk' = write_header(disk, header)
    /\ GoesOn("begin_upgrading",
              [o EXCEPT !.header = header,
                        !.pc = IF o.header.version = "V001" THEN "v001_dump"
                               ELSE IF Len(tree_names(disk)) = 0 THEN "finish"
                               ELSE "v0_data",
                        !.t = 1, !.i = 1, !.unflushed = {}])

BeginUpgrading ==
    /\ IsSome(ondisk)
    /\ Unwrap(ondisk).pc = "loop"
    /\ Unwrap(ondisk).header.version \in {"V0", "V001"}
    /\ IF IsSome(Unwrap(ondisk).header.upgrading)
       THEN disk' = disk /\ Dies("begin_upgrading")
       ELSE BeganWith(Unwrap(ondisk),
                      [Unwrap(ondisk).header EXCEPT
                          !.upgrading = VersionNext(Unwrap(ondisk).header.version)])
    /\ UNCHANGED <<sm, view, importing, arcs, peer, subscriber, importer, raft_store>>

\* OnDisk::upgrade_v002_to_v003: todo!().
UpgradeV002ToV003 ==
    /\ IsSome(ondisk)
    /\ Unwrap(ondisk).pc = "loop"
    /\ Unwrap(ondisk).header.version = "V002"
    /\ disk' = disk
    /\ Dies("upgrade_v002_to_v003")
    /\ UNCHANGED <<sm, view, importing, arcs, peer, subscriber, importer, raft_store>>

\* The tree upgrade_v0_to_v001 is at.
TreeAt(o) == tree_names(disk)[o.t]

\* upgrade_v0_to_v001, one turn of the inner loop: a record is loaded and
\* inserted again in the encoding of V001.
ReencodeRecord ==
    /\ IsSome(ondisk)
    /\ Unwrap(ondisk).pc = "v0_data"
    /\ Unwrap(ondisk).i <= Len(disk.trees[TreeAt(Unwrap(ondisk))])
    /\ disk' = [disk EXCEPT !.trees[TreeAt(Unwrap(ondisk))][Unwrap(ondisk).i] = reencode(@)]
    /\ GoesOn("reencode", [Unwrap(ondisk) EXCEPT !.i = @ + 1,
                                                 !.unflushed = @ \cup {Unwrap(ondisk).i}])
    /\ UNCHANGED <<sm, view, importing, arcs, peer, subscriber, importer, raft_store>>

\* upgrade_v0_to_v001, the end of the inner loop: tree.flush(), then the
\* next tree or finish_upgrading.
FlushTree ==
    /\ IsSome(ondisk)
    /\ Unwrap(ondisk).pc = "v0_data"
    /\ Unwrap(ondisk).i > Len(disk.trees[TreeAt(Unwrap(ondisk))])
    /\ disk' = disk
    /\ GoesOn("flush", [Unwrap(ondisk) EXCEPT
                           !.pc = IF Unwrap(ondisk).t = Len(tree_names(disk))
                                  THEN "finish" ELSE "v0_data",
                           !.t = @ + 1, !.i = 1, !.unflushed = {}])
    /\ UNCHANGED <<sm, view, importing, arcs, peer, subscriber, importer, raft_store>>

\* The records of a tree that RaftStoreEntry::deserialize loads.
Loads(tree) == \A i \in 1..Len(tree) : IsSome(deserialize(tree[i]))

\* upgrade_v001_to_v002 after begin_upgrading: without a state machine tree
\* the upgrade is skipped; else the tree of the smallest id is written to a
\* V002 snapshot file, which the commit of the writer makes visible.
DumpedFrom(o, name) ==
    IF IsNone(name)
    THEN disk' = disk /\ GoesOn("skip_dump", [o EXCEPT !.pc = "finish"])
    ELSE IF ~Loads(disk.trees[Unwrap(name)])
    THEN disk' = disk /\ Dies("dump")
    ELSE /\ disk' = [disk EXCEPT !.snapshot = Some(SnapshotEntries(disk.trees[Unwrap(name)]))]
         /\ GoesOn("dump", [o EXCEPT !.pc = "remove"])

DumpSnapshot ==
    /\ IsSome(ondisk)
    /\ Unwrap(ondisk).pc = "v001_dump"
    /\ DumpedFrom(Unwrap(ondisk), v001_read_state_machine_tree_name(disk))
    /\ UNCHANGED <<sm, view, importing, arcs, peer, subscriber, importer, raft_store>>

\* v001_remove_all_state_machine_trees, one turn of its loop: a state
\* machine tree is dropped; without any left, finish_upgrading is next.
RemoveTree ==
    /\ IsSome(ondisk)
    /\ Unwrap(ondisk).pc = "remove"
    /\ IF StateMachineTrees(disk) = {}
       THEN disk' = disk /\ GoesOn("removed", [Unwrap(ondisk) EXCEPT !.pc = "finish"])
       ELSE /\ disk' = [disk EXCEPT
                           !.trees = DropTree(@, Unwrap(v001_read_state_machine_tree_name(disk)))]
            /\ GoesOn("remove", Unwrap(ondisk))
    /\ UNCHANGED <<sm, view, importing, arcs, peer, subscriber, importer, raft_store>>

\* OnDisk::finish_upgrading: the version becomes the one upgraded to, the
\* upgrading flag is cleared and the header written.
FinishedWith(o, header) ==
    /\ disk' = write_header(disk, header)
    /\ GoesOn("finish_upgrading", [o EXCEPT !.header = header, !.pc = "loop"])

FinishUpgrading ==
    /\ IsSome(ondisk)
    /\ Unwrap(ondisk).pc = "finish"
    /\ FinishedWith(Unwrap(ondisk),
                    Header(Unwrap(Unwrap(ondisk).header.upgrading), None))
    /\ UNCHANGED <<sm, view, importing, arcs, peer, subscriber, importer, raft_store>>

\* The trees after a crash: of the records written since the last flush of
\* the tree, those in `lost` are as they were when the run started.
AfterCrash(d, name, lost) ==
    [d EXCEPT !.crashes = @ + 1,
              !.trees = [n \in DOMAIN @ |->
                            IF n = name
                            THEN [i \in 1..Len(@[n]) |->
                                     IF i \in lost THEN d.initial[n][i] ELSE @[n][i]]
                            ELSE @[n]]]

\* The process is killed, at any point between open() and the end of
\* upgrade(); what was persisted stays, what was not flushed may be lost.
CrashOnDisk ==
    /\ IsSome(ondisk)
    /\ disk.crashes < MaxCrashes
    /\ IF Unwrap(ondisk).pc = "v0_data"
       THEN \E lost \in SUBSET Unwrap(ondisk).unflushed :
               disk' = AfterCrash(disk, TreeAt(Unwrap(ondisk)), lost)
       ELSE disk' = [disk EXCEPT !.crashes = @ + 1]
    /\ ondisk' = None
    /\ last' = Last("crash", None, ReplyNone, <<>>, FALSE)
    /\ UNCHANGED <<sm, view, importing, arcs, peer, subscriber, importer, raft_store>>

\* A step of the program, from open() to the end of upgrade().
OnDiskRuns ==
    \/ OpenOnDisk
    \/ ResumeUpgrading
    \/ UpgradeReturns
    \/ BeginUpgrading
    \/ UpgradeV002ToV003
    \/ ReencodeRecord
    \/ FlushTree
    \/ DumpSnapshot
    \/ RemoveTree
    \/ FinishUpgrading

NextOnDisk ==
    \/ OnDiskRuns
    \/ CrashOnDisk

SpecOnDisk == InitOnDisk /\ [][NextOnDisk]_vars

\* The program runs on until it returns or dies, and is started again when
\* it is down; it is killed MaxCrashes times at most.
SpecOnDiskLive == SpecOnDisk /\ WF_vars(OnDiskRuns)

\* The version on disk, V0 without a header, is one that OnDisk::new accepts.
Compatible ==
    VersionRank(IF IsSome(disk.header) THEN Unwrap(disk.header).version ELSE "V0")
        >= VersionRank(disk.min_compatible)

\* The header persisted is that of the working version, not upgrading.
UpgradeDone == disk.header = Some(Header(DATA_VERSION, None))

\* C29: from a data directory of any version V0 to DATA_VERSION, with
\* crashes at any point between the persisted steps, running open() and
\* upgrade() again and again ends with the header {version: DATA_VERSION,
\* upgrading: None} persisted.
C29_UpgradeTerminates == Compatible => <>[]UpgradeDone


\* The step is the finish_upgrading that ends upgrade_v0_to_v001.
FinishesV0ToV001 ==
    /\ IsSome(ondisk)
    /\ Unwrap(ondisk).pc = "finish"
    /\ Unwrap(ondisk).header.version = "V0"
    /\ last'.op = "finish_upgrading"

\* C30: when the transition from V0 to V001 ends, after any crashes and
\* restarts since it first began, the header persisted is {version: V001,
\* upgrading: None} and every record of every tree but the header is the
\* record the run started with in the encoding of V001, as after a run
\* without a crash.
C30_V0ToV001Idempotent ==
    [][FinishesV0ToV001 =>
          /\ disk'.header = Some(Header("V001", None))
          /\ disk'.trees = Reencoded(disk.initial)]_vars

\* A store of V0 records has been upgraded to V001 after a crash lost
\* records written and the upgrade was run again.
C30_Witness ==
    /\ last.op = "finish_upgrading"
    /\ disk.header = Some(Header("V001", None))
    /\ disk.initial = TreesV0
    /\ disk.trees = Reencoded(TreesV0)
    /\ disk.crashes >= 1
    /\ disk.resumes >= 1


\* The id at the end of the name of a state machine tree.
SmId(name) == IF name = "state_machine/1" THEN 1 ELSE 2

\* The state machine trees among `trees`.
SmNames(trees) == {n \in DOMAIN trees : n \in {"state_machine/1", "state_machine/2"}}

\* The state machine data a store of V001 or older holds: the entries of the
\* state machine tree of the smallest id but the key Initialized; None
\* without such a tree.
StateMachineData(trees) ==
    IF SmNames(trees) = {} THEN None
    ELSE Some(SnapshotEntries(
             trees[CHOOSE n \in SmNames(trees) :
                      \A m \in SmNames(trees) : SmId(n) <= SmId(m)]))

\* The step resumes an unfinished upgrade to V002.
ResumesV002 ==
    /\ IsSome(ondisk)
    /\ Unwrap(ondisk).pc = "upgrade"
    /\ Unwrap(ondisk).header.upgrading = Some("V002")
    /\ last'.op = "upgrade"

\* The step is the finish_upgrading that ends the upgrade to V002.
FinishesV001ToV002 ==
    /\ IsSome(ondisk)
    /\ Unwrap(ondisk).pc = "finish"
    /\ Unwrap(ondisk).header.version = "V001"
    /\ last'.op = "finish_upgrading"

\* C31: resuming an unfinished upgrade to V002 with a V002 snapshot goes on
\* to remove the state machine trees and to finish, and dumps nothing; without
\* a snapshot it persists {V001, None}, leaves trees and snapshot as they are
\* and runs the transition again. Whatever the crashes, when the upgrade to
\* V002 finishes the header is {V002, None}, no state machine tree is left
\* and the snapshot holds the state machine data the store started with.
C31_ResumeV002KeepsData ==
    [][/\ (ResumesV002 /\ IsSome(disk.snapshot)) =>
            /\ Unwrap(ondisk').pc = "remove"
            /\ disk'.snapshot = disk.snapshot
            /\ disk'.header = disk.header
       /\ (ResumesV002 /\ IsNone(disk.snapshot)) =>
            /\ Unwrap(ondisk').pc = "loop"
            /\ disk'.header = Some(Header("V001", None))
            /\ disk'.trees = disk.trees
            /\ disk'.snapshot = None
       /\ FinishesV001ToV002 =>
            /\ disk'.header = Some(Header("V002", None))
            /\ SmNames(disk'.trees) = {}
            /\ disk'.snapshot = StateMachineData(disk.initial)]_vars

\* The upgrade to V002 of a store with state machine trees has finished
\* after two crashes and two resumptions of it.
C31_Witness ==
    /\ last.op = "finish_upgrading"
    /\ disk.header = Some(Header("V002", None))
    /\ SmNames(disk.initial) # {}
    /\ SmNames(disk.trees) = {}
    /\ disk.snapshot = Some(<<"GenericKV">>)
    /\ disk.crashes = 2
    /\ disk.resumes = 2


\* The step is the dump of upgrade_v001_to_v002, or its skipping.
DumpsStateMachine ==
    /\ IsSome(ondisk)
    /\ Unwrap(ondisk).pc = "v001_dump"
    /\ last'.op \in {"dump", "skip_dump"}

\* The records of a tree but the one of the key Initialized.
RecordsKept(tree) == SelectSeq(tree, LAMBDA b : b.entry # "Initialized")

\* The snapshot holds the entries of the records in `kept`, in their order.
HoldsRecords(snapshot, kept) ==
    /\ IsSome(snapshot)
    /\ Len(Unwrap(snapshot)) = Len(kept)
    /\ \A i \in 1..Len(kept) : Unwrap(snapshot)[i] = kept[i].entry

\* C32: the dump of the V001 -> V002 transition writes to the snapshot the
\* records of the state machine tree of the smallest id, whatever a tree of
\* a larger id holds, but the key Initialized; without a state machine tree
\* it writes no snapshot and goes on to finish the upgrade.
C32_DumpsSmallestId ==
    [][DumpsStateMachine =>
          IF SmNames(disk.trees) = {}
          THEN /\ disk'.snapshot = disk.snapshot
               /\ IsNone(disk'.snapshot)
               /\ Unwrap(ondisk').pc = "finish"
          ELSE \E n \in SmNames(disk.trees) :
                  /\ \A m \in SmNames(disk.trees) : SmId(n) <= SmId(m)
                  /\ HoldsRecords(disk'.snapshot, RecordsKept(disk.trees[n]))
                  /\ \A i \in 1..Len(Unwrap(disk'.snapshot)) :
                        Unwrap(disk'.snapshot)[i] # "Initialized"]_vars

\* The tree state_machine/1, with the key Initialized, was dumped while
\* state_machine/2 held other records.
C32_Witness ==
    /\ last.op = "dump"
    /\ SmNames(disk.trees) = {"state_machine/1", "state_machine/2"}
    /\ \E i \in 1..Len(disk.trees["state_machine/1"]) :
          disk.trees["state_machine/1"][i].entry = "Initialized"
    /\ disk.snapshot = Some(<<"GenericKV">>)
    /\ SnapshotEntries(disk.trees["state_machine/2"]) = <<"Nodes">>


(***************************************************************************)
(* AddNode and RemoveNode on a state machine that holds records.           *)
(***************************************************************************)
NodePayloads ==
    { PayloadNormal(None, c) :
        c \in { CmdAddNode(1, Node1, FALSE), CmdAddNode(1, Node2, FALSE),
                CmdAddNode(1, Node2, TRUE), CmdAddNode(2, Node1, FALSE),
                CmdRemoveNode(1), CmdRemoveNode(2),
                CmdUpsertKV(UpsertKV(KeyB, MatchAny, OpUpdate(V1), Expire2s)) } }

NextNode ==
    \/ \E p \in NodePayloads : Apply(p)
    \/ FullSnapshotView

SpecNode == Init /\ [][NextNode]_vars

\* The command of the entry of the step.
AppliedCmd == AppliedEntry.payload.cmd

\* The step applied an AddNode or a RemoveNode command.
AppliesNodeCmd ==
    /\ Applies
    /\ AppliedEntry.payload.t = "Normal"
    /\ AppliedCmd.cmd \in {"AddNode", "RemoveNode"}

\* The node of id n in a state machine, None if absent.
NodeOf(s, n) == IF n \in DOMAIN nodes_ref(s) THEN Some(nodes_ref(s)[n]) ELSE None

\* The reply of the step is (prev, result) of nodes.
RepliesNodes(prev, result) ==
    last'.reply = [t |-> "Node", prev |-> prev, result |-> result]

\* C33: AddNode of an absent id inserts the node and returns (None,
\* Some(node)); of a present id without overriding it keeps the node and
\* returns (prev, prev); of a present id with overriding it replaces the
\* node and returns (prev, Some(node)). RemoveNode removes the entry and
\* returns (prev, None). Every other node, the kv records, the expiration
\* index and the seq counter of every level stay as they are.
C33_NodeCommands ==
    [][AppliesNodeCmd =>
         /\ (AppliedCmd.cmd = "AddNode" /\ IsNone(NodeOf(sm, AppliedCmd.node_id))) =>
              /\ NodeOf(sm', AppliedCmd.node_id) = Some(AppliedCmd.node)
              /\ RepliesNodes(None, Some(AppliedCmd.node))
         /\ (AppliedCmd.cmd = "AddNode" /\ IsSome(NodeOf(sm, AppliedCmd.node_id))
               /\ ~AppliedCmd.overriding) =>
              /\ NodeOf(sm', AppliedCmd.node_id) = NodeOf(sm, AppliedCmd.node_id)
              /\ RepliesNodes(NodeOf(sm, AppliedCmd.node_id), NodeOf(sm, AppliedCmd.node_id))
         /\ (AppliedCmd.cmd = "AddNode" /\ IsSome(NodeOf(sm, AppliedCmd.node_id))
               /\ AppliedCmd.overriding) =>
              /\ NodeOf(sm', AppliedCmd.node_id) = Some(AppliedCmd.node)
              /\ RepliesNodes(NodeOf(sm, AppliedCmd.node_id), Some(AppliedCmd.node))
         /\ AppliedCmd.cmd = "RemoveNode" =>
              /\ IsNone(NodeOf(sm', AppliedCmd.node_id))
              /\ RepliesNodes(NodeOf(sm, AppliedCmd.node_id), None)
         /\ \A n \in {1, 2} \ {AppliedCmd.node_id} : NodeOf(sm', n) = NodeOf(sm, n)
         /\ sm'.frozen = sm.frozen
         /\ sm'.writable.kv = sm.writable.kv
         /\ sm'.writable.expire = sm.writable.expire
         /\ curr_seq(sm') = curr_seq(sm)
         /\ sm'.expire_cursor = sm.expire_cursor]_vars

\* C33: AddNode without overriding was applied to an id that holds another
\* node, in a state machine with a record and its expiration entry: the
\* node is kept and returned twice.
C33_Witness ==
    /\ last.op = "apply" /\ ~last.panic
    /\ Unwrap(last.entry).payload = PayloadNormal(None, CmdAddNode(1, Node1, FALSE))
    /\ last.reply = [t |-> "Node", prev |-> Some(Node2), result |-> Some(Node2)]
    /\ nodes_ref(sm)[1] = Node2
    /\ IsSome(get_kv(sm, KeyB))
    /\ curr_seq(sm) = 1


(***************************************************************************)
(* SMV003KVApi: the read-only KVApi of the state machine, called at any    *)
(* wall clock time between applied entries.                                *)
(***************************************************************************)
\* Expirable::is_expired of an Option<SeqV>: a record without an expiry, or
\* None, never expires. Whether a record whose expiry is the very
\* millisecond of the call is expired is either way: `inclusive` says which.
is_expired(seq_value, now_ms, inclusive) ==
    /\ IsSome(seq_value)
    /\ IsSome(MetaExpireAtMs(Unwrap(seq_value).meta))
    /\ IF inclusive
       THEN Unwrap(MetaExpireAtMs(Unwrap(seq_value).meta)) <= now_ms
       ELSE Unwrap(MetaExpireAtMs(Unwrap(seq_value).meta)) < now_ms

\* A variant of non_expired that returns what it is given.
non_expired_KeepsAll(seq_value, now_ms, inclusive) == seq_value

\* SMV003KVApi::non_expired
non_expired(seq_value, now_ms, inclusive) ==
    IF is_expired(seq_value, now_ms, inclusive) THEN None ELSE seq_value

\* SMV003KVApi::mget_kv: one answer per key, in the order of the keys.
kvapi_mget_kv(s, keys, now_ms, inclusive) ==
    [i \in 1..Len(keys) |-> non_expired(get_kv(s, keys[i]), now_ms, inclusive)]

\* SMV003KVApi::prefix_list_kv: the listing of the state machine without
\* the expired records.
kvapi_prefix_list_kv(s, prefix, now_ms, inclusive) ==
    SelectSeq(prefix_list_kv(s, prefix),
              LAMBDA kv : ~is_expired(Some(kv[2]), now_ms, inclusive))

\* The wall clock times of the calls.
NowTimes == {1000, 2000, 3000}

\* The call returned `got`; the state machine is as it was.
KVApiReturns(op, got) ==
    /\ last' = Last(op, None, got, <<>>, FALSE)
    /\ UNCHANGED <<sm, view, importing, arcs, peer, subscriber, importer, disk, ondisk, raft_store>>

\* unreachable!(): the process aborts.
KVApiAborts(op) ==
    /\ last' = Last(op, None, ReplyNone, <<>>, TRUE)
    /\ UNCHANGED <<sm, view, importing, arcs, peer, subscriber, importer, disk, ondisk, raft_store>>

KVApiGetKV ==
    /\ ~last.panic
    /\ \E key \in Keys, now_ms \in NowTimes, inclusive \in BOOLEAN :
          KVApiReturns("kvapi_get_kv",
                       [t |-> "Get", keys |-> <<key>>, now_ms |-> now_ms,
                        got |-> <<non_expired(get_kv(sm, key), now_ms, inclusive)>>])

KVApiMGetKV ==
    /\ ~last.panic
    /\ \E keys \in {<<KeyB, KeyA>>, <<KeyAB, KeyAB, KeyB>>},
          now_ms \in NowTimes, inclusive \in BOOLEAN :
          KVApiReturns("kvapi_mget_kv",
                       [t |-> "Get", keys |-> keys, now_ms |-> now_ms,
                        got |-> kvapi_mget_kv(sm, keys, now_ms, inclusive)])

KVApiPrefixListKV ==
    /\ ~last.panic
    /\ \E prefix \in {<<>>, KeyA}, now_ms \in NowTimes, inclusive \in BOOLEAN :
          KVApiReturns("kvapi_prefix_list_kv",
                       [t |-> "List", prefix |-> prefix, now_ms |-> now_ms,
                        got |-> kvapi_prefix_list_kv(sm, prefix, now_ms, inclusive)])

\* SMV003KVApi::upsert_kv
KVApiUpsertKV ==
    /\ ~last.panic
    /\ KVApiAborts("kvapi_upsert_kv")

\* SMV003KVApi::transaction
KVApiTransaction ==
    /\ ~last.panic
    /\ KVApiAborts("kvapi_transaction")

KVApiPayloads ==
    { PayloadNormal(None, CmdUpsertKV(UpsertKV(KeyA, MatchAny, OpUpdate(V1), None))),
      PayloadNormal(Some(1000), CmdUpsertKV(UpsertKV(KeyB, MatchAny, OpUpdate(V1), Expire2s))),
      PayloadNormal(None, CmdUpsertKV(UpsertKV(KeyAB, MatchAny, OpUpdate(V2), None))),
      PayloadNormal(Some(3000), CmdUpsertKV(UpsertKV(KeyA, MatchAny, OpDelete, None))) }

NextKVApi ==
    \/ \E p \in KVApiPayloads : Apply(p)
    \/ FullSnapshotView
    \/ KVApiGetKV
    \/ KVApiMGetKV
    \/ KVApiPrefixListKV
    \/ KVApiUpsertKV
    \/ KVApiTransaction

SpecKVApi == Init /\ [][NextKVApi]_vars

\* `got` is a right answer for the key at the time: None for a key without
\* a live record or with one whose expiry is before the time, the record for
\* one without an expiry or with an expiry after the time, and either for
\* one whose expiry is the time.
AnswersKey(live, key, now_ms, got) ==
    IF key \notin DOMAIN live THEN got = None
    ELSE IF IsNone(MarkedExpireAtMs(live[key])) THEN got = ToSeqV(live[key])
    ELSE IF Unwrap(MarkedExpireAtMs(live[key])) > now_ms THEN got = ToSeqV(live[key])
    ELSE IF Unwrap(MarkedExpireAtMs(live[key])) < now_ms THEN got = None
    ELSE got = None \/ got = ToSeqV(live[key])

\* The listing holds, in key order and once each, right answers for keys with
\* the prefix, and every key with the prefix whose right answer is a record.
AnswersPrefix(live, prefix, now_ms, got) ==
    /\ \A i \in 1..Len(got) :
          /\ StartsWith(got[i][1], prefix)
          /\ AnswersKey(live, got[i][1], now_ms, Some(got[i][2]))
    /\ \A i \in 1..Len(got), j \in 1..Len(got) :
          i < j => got[i][1] # got[j][1] /\ BytesLE(got[i][1], got[j][1])
    /\ \A key \in DOMAIN live :
          (StartsWith(key, prefix) /\ ~AnswersKey(live, key, now_ms, None)) =>
              \E i \in 1..Len(got) : got[i][1] = key

\* C34: get_kv, mget_kv and prefix_list_kv of SMV003KVApi return no record
\* whose expiry is before the wall clock time of the call, swept or not,
\* return every live record whose expiry is after it or that has none, and
\* leave the state machine as it is; upsert_kv and transaction abort and
\* write nothing.
C34_ReadOnlyKVApi ==
    [][/\ last'.op \in {"kvapi_get_kv", "kvapi_mget_kv"} =>
            /\ sm' = sm
            /\ ~last'.panic
            /\ Len(last'.reply.got) = Len(last'.reply.keys)
            /\ \A i \in 1..Len(last'.reply.keys) :
                  AnswersKey(LiveKV(AllLevels(sm)), last'.reply.keys[i],
                             last'.reply.now_ms, last'.reply.got[i])
       /\ last'.op = "kvapi_prefix_list_kv" =>
            /\ sm' = sm
            /\ ~last'.panic
            /\ AnswersPrefix(LiveKV(AllLevels(sm)), last'.reply.prefix,
                             last'.reply.now_ms, last'.reply.got)
       /\ last'.op \in {"kvapi_upsert_kv", "kvapi_transaction"} =>
            /\ sm' = sm
            /\ last'.panic]_vars

\* C34: mget_kv of KeyB and KeyA was called at 3000 ms on a state machine
\* whose cursor is at 1000 ms and that holds KeyB live with the expiry
\* 2000 ms, not swept: KeyB is answered None and KeyA with its record.
C34_Witness ==
    /\ last.op = "kvapi_mget_kv"
    /\ last.reply.keys = <<KeyB, KeyA>>
    /\ last.reply.now_ms = 3000
    /\ sm.expire_cursor = ExpireKey(1000, 0)
    /\ IsSome(get_kv(sm, KeyB))
    /\ last.reply.got[1] = None
    /\ IsSome(last.reply.got[2])
    /\ Len(sm.frozen) >= 1


\* The step is a call of replace_base with the view held.
ReplacesBase == last'.op = "replace_base" /\ IsSome(view)

\* The newest frozen level of the state machine is the very level that is
\* the newest of the levels the view was taken of.
SameBase(s, v) ==
    /\ Len(s.frozen) > 0
    /\ Len(v.original) > 0
    /\ s.frozen[Len(s.frozen)].id = v.original[Len(v.original)].id

\* What is read through the state machine is the same in s and t.
SameReads(s, t) ==
    /\ \A k \in Keys : get_kv(s, k) = get_kv(t, k)
    /\ LiveExpire(AllLevels(s)) = LiveExpire(AllLevels(t))
    /\ curr_seq(s) = curr_seq(t)
    /\ last_applied_ref(s) = last_applied_ref(t)
    /\ last_membership_ref(s) = last_membership_ref(t)
    /\ nodes_ref(s) = nodes_ref(t)

\* C35: replace_base is accepted exactly when the newest frozen level of the
\* state machine is the newest level the snapshot was taken of, and aborts
\* after another freeze; when accepted the frozen levels are those of the
\* snapshot, compacted or not, the writable level is as it was, and get_kv
\* of every key, the expiration index, seq, last_applied, last_membership
\* and nodes read the same before and after.
C35_ReplaceBaseKeepsReads ==
    [][ReplacesBase =>
         /\ last'.panic <=> ~SameBase(sm, Unwrap(view))
         /\ last'.panic => sm' = sm
         /\ ~last'.panic =>
              /\ sm'.frozen = Unwrap(view).compacted
              /\ sm'.writable = sm.writable
              /\ sm'.expire_cursor = sm.expire_cursor
              /\ SameReads(sm, sm')]_vars

\* C35: a view of two levels, the newer holding a tombstone, was compacted
\* into one and put back after another record was written to the writable
\* level.
C35_Witness ==
    /\ last.op = "replace_base" /\ ~last.panic
    /\ IsSome(view)
    /\ Len(Unwrap(view).original) = 2
    /\ Unwrap(view).original[2].d.kv = (KeyA :> TombStone(1))
    /\ sm.frozen = Unwrap(view).compacted
    /\ Len(sm.frozen) = 1
    /\ DOMAIN sm.writable.kv = {KeyB}
    /\ IsNone(get_kv(sm, KeyA))


\* The header persisted, if any, is of a version alone or of a version
\* being upgraded to the one that follows it.
HeaderWellFormed(d) ==
    IsSome(d.header) =>
        \/ IsNone(Unwrap(d.header).upgrading)
        \/ /\ Unwrap(d.header).version # DATA_VERSION
           /\ Unwrap(d.header).upgrading = VersionNext(Unwrap(d.header).version)

\* The version persisted, V0 without a header.
PersistedRank(d) ==
    IF IsSome(d.header) THEN VersionRank(Unwrap(d.header).version) ELSE VersionRank("V0")

\* C36: the header persisted has upgrading None or the version that follows
\* its version, at every point of open() and upgrade() where a crash may
\* fall; once written the header is never removed and its version never
\* decreases; the header a running process holds is the one persisted; and
\* begin_upgrading never fails its assertions, in a first run or in one that
\* resumes after a crash.
C36_HeaderWellFormed ==
    /\ HeaderWellFormed(disk)
    /\ [][/\ HeaderWellFormed(disk')
          /\ IsSome(disk.header) => IsSome(disk'.header)
          /\ PersistedRank(disk') >= PersistedRank(disk)
          /\ IsSome(ondisk') => disk'.header = Some(Unwrap(ondisk').header)
          /\ last'.op = "begin_upgrading" =>
                /\ ~last'.panic
                /\ IsNone(Unwrap(ondisk).header.upgrading)
                /\ Unwrap(disk'.header).upgrading =
                      VersionNext(Unwrap(ondisk).header.version)]_vars

\* C36: begin_upgrading of the upgrade to V001 ran again after a crash left
\* the header {V0, upgrading: V001} and the next run cleared the flag.
C36_Witness ==
    /\ last.op = "begin_upgrading" /\ ~last.panic
    /\ disk.header = Some(Header("V0", Some("V001")))
    /\ disk.crashes >= 1
    /\ disk.resumes >= 1


\* Every live entry of the expiration index is at or after the cursor.
NothingBehindCursor(s) ==
    \A ek \in DOMAIN LiveExpire(AllLevels(s)) : ExpireKeyLE(s.expire_cursor, ek)

\* The record an UpsertKV command writes is kept live: it is read back with
\* the meta of the command and has its entry in the expiration index.
StoredLive(s, upsert_kv) ==
    /\ IsSome(get_kv(s, upsert_kv.key))
    /\ Unwrap(get_kv(s, upsert_kv.key)).meta = upsert_kv.value_meta
    /\ \E ek \in DOMAIN LiveExpire(AllLevels(s)) :
          /\ ek = ExpireKey(Unwrap(get_expire_at_ms(upsert_kv)),
                            Unwrap(get_kv(s, upsert_kv.key)).seq)
          /\ LiveExpire(AllLevels(s))[ek].value = upsert_kv.key

\* C37: after every step no live entry of the expiration index is behind
\* expire_cursor, so the sweep, which reads the index from the cursor on,
\* skips nothing; no apply aborts in the checks of the sweep; an entry with
\* a time removes every index entry whose time is at or before it; and an
\* Update with an expiry equal to the time of the cursor is stored live.
C37_SweepComplete ==
    /\ [](NothingBehindCursor(sm) /\ (last.op = "apply" => ~last.panic))
    /\ [][Applies =>
            /\ EntryTime # 0 =>
                 \A ek \in DOMAIN LiveExpire(AllLevels(sm)) :
                    ek[1] <= EntryTime => ek \notin DOMAIN LiveExpire(AllLevels(sm'))
            /\ (/\ AppliesUpsert
                /\ AppliedUpsert.value.t = "Update"
                /\ ~Mismatch(AppliedUpsert.seq,
                             OptSeq(Observed(sm, AppliedTime, AppliedUpsert.key)))
                /\ get_expire_at_ms(AppliedUpsert) = Some(sm'.expire_cursor[1])) =>
                 StoredLive(sm', AppliedUpsert)]_vars

\* C37: an Update of "a" with the expiry 2000 ms was applied by an entry of
\* 2000 ms and stored live at the cursor; the next entry, of 2000 ms too,
\* swept it before its own command ran.
C37_Witness ==
    /\ last.op = "apply" /\ ~last.panic
    /\ Unwrap(last.entry).log_id = LogId(1, 2)
    /\ Unwrap(last.entry).payload =
          PayloadNormal(Some(2000), CmdUpsertKV(UpsertKV(KeyA, MatchAny, OpAsIs, Expire2s)))
    /\ sm.expire_cursor = ExpireKey(2000, 0)
    /\ Len(last.events) = 1
    /\ last.events[1].key = KeyA
    /\ IsSome(last.events[1].prev)
    /\ Unwrap(last.events[1].prev).meta = Expire2s
    /\ IsNone(last.events[1].result)
    /\ IsNone(get_kv(sm, KeyA))


(***************************************************************************)
(* Transactions whose ops read and write the same key in turn.             *)
(***************************************************************************)
TxnOpsPayloads ==
    { PayloadNormal(None, CmdTransaction(TxnRequest(
          <<>>,
          <<TxnPut(KeyA, V1, None, TRUE), TxnGet(KeyA),
            TxnDelete(KeyA, None, TRUE), TxnGet(KeyA)>>,
          <<>>))),
      PayloadNormal(None, CmdTransaction(TxnRequest(
          <<>>,
          <<TxnDelete(KeyB, None, FALSE), TxnPut(KeyB, V2, None, FALSE),
            TxnDelete(KeyB, Some(1), TRUE), TxnGet(KeyB)>>,
          <<>>))),
      PayloadNormal(Some(2000), CmdTransaction(TxnRequest(
          <<>>,
          <<TxnPut(KeyA, V2, Some(1), FALSE), TxnGet(KeyA)>>,
          <<>>))),
      PayloadNormal(Some(1000), CmdTransaction(TxnRequest(
          <<TxnCondition(KeyA, "Gt", Some(TargetSeq(0)))>>,
          <<TxnDelete(KeyA, None, FALSE), TxnGet(KeyA)>>,
          <<TxnPut(KeyA, V1, Some(2), FALSE), TxnGet(KeyA),
            TxnPut(KeyA, V2, None, TRUE)>>))),
      PayloadNormal(None, CmdTransaction(TxnRequest(
          <<>>, <<TxnGet(KeyA), TxnGet(KeyB)>>, <<>>))) }

NextTxnOps ==
    \/ \E p \in TxnOpsPayloads : Apply(p)
    \/ FullSnapshotView

SpecTxnOps == Init /\ [][NextTxnOps]_vars

\* The upsert a Put or a Delete op stands for.
UpsertOf(op) ==
    IF op.t = "Put"
    THEN UpsertKV(op.key, MatchAny, OpUpdate(op.value), Some(KVMeta(op.expire_at)))
    ELSE UpsertKV(op.key,
                  IF IsSome(op.match_seq) THEN MatchExact(Unwrap(op.match_seq)) ELSE MatchAny,
                  OpDelete, None)

\* The state machine after one op, by the upsert of the state machine alone.
AfterOp(s, op) ==
    IF op.t \in {"Put", "Delete"} THEN sm_upsert_kv(s, UpsertOf(op)).sm ELSE s

\* The state machine before the i-th op of a list that starts in s.
RECURSIVE BeforeOp(_, _, _)
BeforeOp(s, ops, i) ==
    IF i = 1 THEN s ELSE AfterOp(BeforeOp(s, ops, i - 1), ops[i - 1])

\* The state machine a transaction starts with: the sweep of the entry done.
TxnStart == clean_expired_kvs(Ctx(sm, <<>>, FALSE), AppliedTime).sm

\* The ops that ran and the responses to them.
RanOps == Branch(AppliedTxn, last'.reply.success)
Responses == last'.reply.responses

\* The response to the i-th op is the one to an op that ran on the state
\* the ops before it left.
RespondsInTurn(s, op, resp) ==
    /\ resp.t = op.t
    /\ resp.key = op.key
    /\ op.t = "Get" => resp.value = OptPb(get_kv(s, op.key))
    /\ op.t \in {"Put", "Delete"} =>
          resp.prev_value = (IF op.prev_value THEN OptPb(get_kv(s, op.key)) ELSE None)
    /\ op.t = "Delete" =>
          /\ resp.success <=> (IsSome(get_kv(s, op.key)) /\ IsNone(get_kv(AfterOp(s, op), op.key)))
          /\ resp.success <=>
                (/\ IsSome(get_kv(s, op.key))
                 /\ IsSome(op.match_seq) => Unwrap(op.match_seq) = OptSeq(get_kv(s, op.key)))

\* Op j is a Get of the key that op i put, with no Put or Delete of the key
\* between them.
GetsThePut(ops, i, j) ==
    /\ i < j
    /\ ops[i].t = "Put"
    /\ ops[j].t = "Get"
    /\ ops[j].key = ops[i].key
    /\ \A m \in (i + 1)..(j - 1) : ops[m].t = "Get" \/ ops[m].key # ops[i].key

\* The value a Put made: the seq after the one of the state it ran on.
PutValue(s, put) == Some([seq |-> curr_seq(s) + 1, data |-> put.value])

\* The Put has an expiry before the expiration cursor.
PutExpired(s, put) ==
    IsSome(put.expire_at) /\ put.expire_at[1] * 1000 < s.expire_cursor[1]

\* One response per op, each in turn, and the state left is the one the ops
\* leave one after the other.
RunsInTurn ==
    /\ Len(Responses) = Len(RanOps)
    /\ \A i \in 1..Len(RanOps) :
          RespondsInTurn(BeforeOp(TxnStart, RanOps, i), RanOps[i], Responses[i])
    /\ \A k \in Keys :
          get_kv(sm', k) = get_kv(BeforeOp(TxnStart, RanOps, Len(RanOps) + 1), k)
    /\ curr_seq(sm') = curr_seq(BeforeOp(TxnStart, RanOps, Len(RanOps) + 1))

\* C38 as stated: the ops of the branch that runs are executed in list
\* order, each on the state the ops before it left, with one response per
\* op in op order; a Delete reports success exactly when it replaced a live
\* value by a tombstone; and a Get after a Put of the same key returns the
\* value put with its new seq.
C38_OpsRunInOrder ==
    [][AppliesTxn =>
         /\ RunsInTurn
         /\ \A i \in 1..Len(RanOps), j \in 1..Len(RanOps) :
               GetsThePut(RanOps, i, j) =>
                  Responses[j].value = PutValue(BeforeOp(TxnStart, RanOps, i), RanOps[i])]_vars

\* C38, amended: as above, but a Get after a Put of the same key returns
\* the value put with its new seq unless the Put has an expiry before the
\* expiration cursor; the record is then deleted at once and the Get
\* returns None.
C38_OpsRunInOrderUnlessExpired ==
    [][AppliesTxn =>
         /\ RunsInTurn
         /\ \A i \in 1..Len(RanOps), j \in 1..Len(RanOps) :
               GetsThePut(RanOps, i, j) =>
                  Responses[j].value =
                     (IF PutExpired(BeforeOp(TxnStart, RanOps, i), RanOps[i])
                      THEN None
                      ELSE PutValue(BeforeOp(TxnStart, RanOps, i), RanOps[i]))]_vars

\* C38: Put, Get, Delete, Get of "a" ran on a state machine where "a" was
\* live at seq 2: the Get after the Put returns the value at seq 3, the
\* Delete succeeds and the Get after it returns None.
C38_Witness ==
    /\ last.op = "apply" /\ ~last.panic
    /\ Unwrap(last.entry).log_id = LogId(1, 2)
    /\ last.reply.t = "TxnReply"
    /\ Len(last.reply.responses) = 4
    /\ last.reply.responses[1].t = "Put"
    /\ last.reply.responses[1].prev_value = Some([seq |-> 2, data |-> V2])
    /\ last.reply.responses[2].t = "Get"
    /\ last.reply.responses[2].value = Some([seq |-> 3, data |-> V1])
    /\ last.reply.responses[3].t = "Delete"
    /\ last.reply.responses[3].success
    /\ last.reply.responses[4].value = None
    /\ IsNone(get_kv(sm, KeyA))


(***************************************************************************)
(* RaftStore as RaftLogStorage: get_log_state, append, truncate and purge  *)
(* over the log tree and the persisted last_purged.  A method takes the    *)
(* lock of the log anew for every access, and purge leaves the removal of  *)
(* the entries to a task it spawns.                                        *)
(***************************************************************************)
\* The indexes at which the log tree holds an entry.
LogIndexes(log) == {i \in 1..MaxLogIndex : log[i] # 0}

\* logs().last(): the log id of the entry with the greatest index, if any.
LastLogId(log) ==
    IF LogIndexes(log) = {} THEN None
    ELSE LET i == CHOOSE j \in LogIndexes(log) : \A k \in LogIndexes(log) : k <= j
         IN  Some(LogId(log[i], i))

\* range_remove: the log without the entries with an index in lo..hi.
range_remove(log, lo, hi) ==
    [i \in 1..MaxLogIndex |-> IF lo <= i /\ i <= hi THEN 0 ELSE log[i]]

\* The outcomes of a write to the sled tree (append, range_remove): the batch
\* is applied and flushed, or it is not applied, or it is applied and the
\* flush that follows fails; the last two return an error.
WriteOutcomes == {"Ok", "Err", "FlushErr"}
BatchApplied(outcome) == outcome # "Err"
ResultOf(outcome) == IF outcome = "Ok" THEN "Ok" ELSE "Err"

\* The index of an optional log id, 0 without one.
IndexOf(log_id) == IF IsNone(log_id) THEN 0 ELSE Unwrap(log_id).index

\* The term of an optional log id, 1 without one.
TermOf(log_id) == IF IsNone(log_id) THEN 1 ELSE Unwrap(log_id).term

\* The greatest term the store has seen, in an entry or in last_purged.
KnownTerm(s) == Max(TermOf(LastLogId(s.log)), TermOf(s.last_purged))

\* The index after the last one the store has seen.
NextLogIndex(s) == Max(IndexOf(LastLogId(s.log)), IndexOf(s.last_purged)) + 1

\* The LogState built by get_log_state from its two reads.
LogState(last_purged_log_id, last_entry) ==
    [last_purged_log_id |-> last_purged_log_id,
     last_log_id |-> IF IsNone(last_entry) THEN last_purged_log_id ELSE last_entry]

\* get_log_state, first read: get_last_purged() under a read lock that is
\* released before the second read; a failed read returns the error.
GetLastPurged ==
    /\ IsNone(raft_store.reading)
    /\ \E ok \in BOOLEAN :
        raft_store' =
            IF ok
            THEN [RaftResult(raft_store, "get_last_purged", None, <<>>, "")
                    EXCEPT !.reading = Some(raft_store.last_purged)]
            ELSE RaftResult(raft_store, "get_log_state", None, <<>>, "Err")
    /\ UNCHANGED <<sm, view, importing, arcs, peer, last, subscriber, importer, disk, ondisk>>

\* get_log_state, second read: logs().last() under a new read lock, then the
\* LogState of the two values read.
GetLogState ==
    /\ IsSome(raft_store.reading)
    /\ \E ok \in BOOLEAN :
        raft_store' =
            IF ok
            THEN [RaftResult(raft_store, "get_log_state",
                             Some(LogState(Unwrap(raft_store.reading),
                                           LastLogId(raft_store.log))),
                             <<>>, "Ok")
                    EXCEPT !.reading = None]
            ELSE [RaftResult(raft_store, "get_log_state", None, <<>>, "Err")
                    EXCEPT !.reading = None]
    /\ UNCHANGED <<sm, view, importing, arcs, peer, last, subscriber, importer, disk, ondisk>>

\* A variant of append that returns the error of a failed write instead of
\* handing it to the callback.
append_ReturnsError(s, entries, outcome) ==
    LET log == IF BatchApplied(outcome)
               THEN [i \in 1..MaxLogIndex |->
                        IF \E e \in entries : e.index = i
                        THEN (CHOOSE e \in entries : e.index = i).term
                        ELSE s.log[i]]
               ELSE s.log
    IN  IF outcome = "Ok"
        THEN RaftResult([s EXCEPT !.log = log], "append", None,
                        <<[res |-> "Ok", log |-> log]>>, "Ok")
        ELSE RaftResult([s EXCEPT !.log = log], "append", None, <<>>, "Err")

\* append: the entries are written to the log tree, then the callback is
\* called once with the outcome of the write (here with the log it finds
\* written), and Ok(()) is returned.
append(s, entries, outcome) ==
    LET log == IF BatchApplied(outcome)
               THEN [i \in 1..MaxLogIndex |->
                        IF \E e \in entries : e.index = i
                        THEN (CHOOSE e \in entries : e.index = i).term
                        ELSE s.log[i]]
               ELSE s.log
    IN  RaftResult([s EXCEPT !.log = log], "append", None,
                   <<[res |-> ResultOf(outcome), log |-> log]>>,
                   "Ok")

\* The entries of one call of append: one or two entries after the last
\* index, of a term that is not below the terms seen.
EntriesAfter(s) ==
    {{LogId(term, i) : i \in NextLogIndex(s)..(NextLogIndex(s) + n - 1)} :
        n \in 1..2, term \in KnownTerm(s)..MaxTerm}

RaftAppend ==
    /\ \E entries \in EntriesAfter(raft_store), outcome \in WriteOutcomes :
        /\ \A e \in entries : e.index <= MaxLogIndex
        /\ raft_store' = append(raft_store, entries, outcome)
    /\ UNCHANGED <<sm, view, importing, arcs, peer, last, subscriber, importer, disk, ondisk>>

\* truncate: range_remove(log_id.index..) on the log tree; the caller
\* truncates entries that are not committed, which are never purged.
RaftTruncate ==
    /\ \E index \in LogIndexes(raft_store.log), outcome \in WriteOutcomes :
        /\ index > IndexOf(raft_store.last_purged)
        /\ raft_store' =
            RaftResult([raft_store EXCEPT
                            !.log = IF BatchApplied(outcome)
                                    THEN range_remove(@, index, MaxLogIndex)
                                    ELSE @],
                       "truncate", None, <<>>, ResultOf(outcome))
    /\ UNCHANGED <<sm, view, importing, arcs, peer, last, subscriber, importer, disk, ondisk>>

\* The log ids purge is called with: the id of a stored entry, or the last log
\* id of an installed snapshot, which may be past the last entry stored.
PurgeUpto(s) ==
    {LogId(s.log[i], i) : i \in {j \in LogIndexes(s.log) : j > IndexOf(s.last_purged)}}
    \cup {LogId(term, i) : term \in KnownTerm(s)..MaxTerm,
                          i \in NextLogIndex(s)..MaxLogIndex}

\* purge: set_last_purged(log_id) is persisted, then the removal of the
\* entries is spawned as a task of its own and Ok(()) is returned; a failed
\* set_last_purged returns the error and spawns nothing.
RaftPurge ==
    /\ \E log_id \in PurgeUpto(raft_store), ok \in BOOLEAN :
        raft_store' =
            IF ok
            THEN RaftResult([raft_store EXCEPT
                                !.last_purged = Some(log_id),
                                !.tasks = @ \cup {log_id}],
                            "purge", None, <<>>, "Ok")
            ELSE RaftResult(raft_store, "purge", None, <<>>, "Err")
    /\ UNCHANGED <<sm, view, importing, arcs, peer, last, subscriber, importer, disk, ondisk>>

\* The task spawned by purge: range_remove(..=log_id.index) on the log tree;
\* an error is logged and leaves the entries.
PurgeTask ==
    /\ \E log_id \in raft_store.tasks, outcome \in WriteOutcomes :
        raft_store' =
            RaftResult([raft_store EXCEPT
                            !.tasks = @ \ {log_id},
                            !.log = IF BatchApplied(outcome)
                                    THEN range_remove(@, 1, log_id.index)
                                    ELSE @],
                       "purge_task", None, <<>>, "")
    /\ UNCHANGED <<sm, view, importing, arcs, peer, last, subscriber, importer, disk, ondisk>>

\* The process stops and starts again: the tasks that did not run and the
\* call in progress are gone, what is persisted stays.
RaftRestart ==
    /\ raft_store.tasks # {} \/ IsSome(raft_store.reading)
    /\ raft_store' =
        RaftResult([raft_store EXCEPT !.tasks = {}, !.reading = None],
                   "restart", None, <<>>, "")
    /\ UNCHANGED <<sm, view, importing, arcs, peer, last, subscriber, importer, disk, ondisk>>

NextRaftLog ==
    \/ GetLastPurged
    \/ GetLogState
    \/ RaftAppend
    \/ RaftTruncate
    \/ RaftPurge
    \/ PurgeTask
    \/ RaftRestart

SpecRaftLog == Init /\ [][NextRaftLog]_vars

\* The LogState returned by get_log_state is ordered.
LogStateOrdered ==
    IsSome(raft_store.log_state) =>
        OptLogIdLE(Unwrap(raft_store.log_state).last_purged_log_id,
                   Unwrap(raft_store.log_state).last_log_id)

\* A step of the task spawned by purge(log_id) removes no entry with an index
\* above log_id.index.
PurgeRemovesUpTo ==
    [][raft_store'.op = "purge_task" =>
        \E log_id \in raft_store.tasks \ raft_store'.tasks :
            \A i \in LogIndexes(raft_store.log) \ LogIndexes(raft_store'.log) :
                i <= log_id.index]_vars

\* C39: every LogState returned by get_log_state has last_purged_log_id <=
\* last_log_id, however the two reads of get_log_state interleave with purge,
\* with the task purge spawns, with append and with truncate; and the task of
\* purge(log_id) removes no entry with an index above log_id.index.
C39_LogStateOrdered == [](LogStateOrdered) /\ PurgeRemovesUpTo


\* A step is a call of append.
Appends == raft_store'.op = "append"

\* The entries of the call of append were all stored.
AllStored ==
    /\ LogIndexes(raft_store.log) # LogIndexes(raft_store'.log)
    /\ \A i \in LogIndexes(raft_store'.log) \ LogIndexes(raft_store.log) :
        i >= NextLogIndex(raft_store)

\* C40: a call of append calls the LogFlushed callback exactly once, after the
\* write was tried (the callback finds the log as append leaves it), with Ok
\* and all entries stored when the write succeeded and with an error when it
\* failed, and append itself returns Ok(()) either way.
C40_AppendReportsByCallback ==
    [][Appends =>
        /\ Len(raft_store'.callback) = 1
        /\ raft_store'.callback[1].log = raft_store'.log
        /\ raft_store'.callback[1].res \in {"Ok", "Err"}
        /\ (raft_store'.callback[1].res = "Ok" => AllStored)
        /\ (raft_store'.log = raft_store.log => raft_store'.callback[1].res = "Err")
        /\ raft_store'.returned = "Ok"]_vars

\* Reached: a call of append whose write failed has called the callback once
\* with the error and returned Ok, after an earlier call had stored an entry.
C40_Witness ==
    /\ raft_store.op = "append"
    /\ raft_store.callback = <<[res |-> "Err", log |-> raft_store.log]>>
    /\ raft_store.returned = "Ok"
    /\ LogIndexes(raft_store.log) = {1}

====
